---- MODULE Spec2Model ----
(***************************************************************************)
(* A model of the coach CLI's session log collector (src/src/collector.ts). *)
(*                                                                         *)
(* The on-disk logs are the state: the flat history log, the primary       *)
(* transcript tree and the secondary audit tree.  External producers       *)
(* append records to them; collectToday reads them and returns a snapshot. *)
(***************************************************************************)
EXTENDS Integers, Sequences, FiniteSets, TLC

VARIABLES
    history,    \* ~/.claude/history.jsonl
    projects,   \* ~/.claude/projects
    desktop,    \* ~/Library/Application Support/Claude/local-agent-mode-sessions
    last,       \* the outcome of the latest collectToday against the logs as they are
    prev,       \* the outcome of the run before it, against the same logs
    file,       \* a line-record file handed to readJsonl
    items,      \* the outcome of the latest readJsonl(file)
    stateFile,     \* ~/.coach/state.json
    insightsFile,  \* ~/.coach/insights.jsonl
    run,           \* the outcome of the latest coach command
    now,           \* the local date of the machine, as a day number
    proc           \* the claude child process of runClaude and its promise

vars == <<history, projects, desktop, last, prev, file, items,
          stateFile, insightsFile, run, now, proc>>

(***************************************************************************)
(* Bounds of the model.                                                    *)
(***************************************************************************)
\* Lines the producers write to the logs, all files together.
MaxLines == 3
\* Lines of the file handed to readJsonl.
MaxFileLines == 4
\* The machine's timezone, in hours east of UTC.
LocalOffset == 0

(***************************************************************************)
(* Values.                                                                 *)
(*                                                                         *)
(* A missing string field (undefined) is UNDEF.  A JavaScript exception    *)
(* leaving a function is the outcome Raise; Ok(v) is a normal return.      *)
(***************************************************************************)
UNDEF == "<undefined>"

Ok(v) == [raised |-> FALSE, val |-> v]
Raise == [raised |-> TRUE, val |-> <<>>]

\* Array.prototype.filter, map and reduce over a sequence.
RECURSIVE SelectIdx(_, _, _)
SelectIdx(s, Keep(_), i) ==
    IF i > Len(s) THEN <<>>
    ELSE (IF Keep(s[i]) THEN <<s[i]>> ELSE <<>>) \o SelectIdx(s, Keep, i + 1)
Filter(s, Keep(_)) == SelectIdx(s, Keep, 1)

Map(s, F(_)) == [i \in 1..Len(s) |-> F(s[i])]

RECURSIVE Reduce(_, _, _)
Reduce(s, F(_, _), acc) ==
    IF s = <<>> THEN acc ELSE Reduce(Tail(s), F, F(acc, Head(s)))

(***************************************************************************)
(* Time.  An instant is a number of hours since the epoch.  A timestamp    *)
(* is what a record carries: nothing (k = "none"), a value Date cannot     *)
(* parse (k = "bad"), epoch time as a number (k = "num"), or an ISO string *)
(* (k = "iso") that reads wall-clock hour `wall` at UTC offset `off`,      *)
(* such as 2024-01-02T10:00:00Z or 2024-01-02T12:00:00+05:00.              *)
(***************************************************************************)
HoursPerDay == 24

NoTs       == [k |-> "none", wall |-> 0, off |-> 0]
BadTs      == [k |-> "bad",  wall |-> 0, off |-> 0]
Num(n)     == [k |-> "num",  wall |-> n, off |-> 0]
Iso(w, o)  == [k |-> "iso",  wall |-> w, off |-> o]

\* new Date(timestamp): the instant, or an Invalid Date.
IsValidDate(ts) == ts.k \in {"num", "iso"}
Instant(ts) == ts.wall - ts.off

\* Truthiness of a timestamp field: undefined is falsy, a non-empty string truthy.
Truthy(ts) == ts.k # "none"

\* date.toISOString(): the instant in the canonical UTC form.
toISOString(ts) == Iso(Instant(ts), 0)

\* The order of < on two ISO strings: character by character, so the wall-clock
\* digits decide first and then the offset suffix, where "+" sorts before "Z".
StrLess(a, b) ==
    \/ a.wall < b.wall
    \/ a.wall = b.wall /\ a.off > b.off

\* The calendar day of an instant in the local timezone; "NaN-NaN-NaN" for an
\* Invalid Date.  Days are numbered from the epoch.
NaNDay == -1
toLocalDateStr(ts) ==
    IF IsValidDate(ts) THEN (Instant(ts) + LocalOffset) \div HoursPerDay ELSE NaNDay

isSameDay(timestamp, targetDate) == toLocalDateStr(timestamp) = targetDate

(***************************************************************************)
(* Paths.  A path is its sequence of segments; a missing path field        *)
(* (undefined) is NoPath, on which path.basename throws a TypeError.       *)
(***************************************************************************)
Path(segs) == [present |-> TRUE, segs |-> segs]
NoPath == [present |-> FALSE, segs |-> <<>>]

basename(p) == IF p.segs = <<>> THEN "" ELSE p.segs[Len(p.segs)]
\* extractProjectName taking the first segment of the path.
extractProjectNameFirst(projectPath) ==
    IF projectPath.segs = <<>> THEN "" ELSE projectPath.segs[1]

extractProjectName(projectPath) == basename(projectPath)

(***************************************************************************)
(* Line-record files.  A file is missing, or a directory or otherwise      *)
(* unreadable (readFileSync throws), or its lines.  A line is blank        *)
(* (kind "blank"), not JSON (kind "bad"), the JSON value null (kind        *)
(* "null"), or a JSON record (kind "rec") with its fields.                 *)
(***************************************************************************)
MissingFile == [exists |-> FALSE, readable |-> FALSE, lines |-> <<>>]
UnreadableFile == [exists |-> TRUE, readable |-> FALSE, lines |-> <<>>]
TextFile(lines) == [exists |-> TRUE, readable |-> TRUE, lines |-> lines]

IsBlank(line) == line.kind = "blank"
Parses(line) == line.kind \in {"null", "rec"}

\* String.prototype.trim on the file's text: leading and trailing blank lines go.
RECURSIVE TrimLeft(_)
TrimLeft(lines) ==
    IF lines # <<>> /\ IsBlank(Head(lines)) THEN TrimLeft(Tail(lines)) ELSE lines
RECURSIVE TrimRight(_)
TrimRight(lines) ==
    IF lines # <<>> /\ IsBlank(lines[Len(lines)])
    THEN TrimRight(SubSeq(lines, 1, Len(lines) - 1))
    ELSE lines
Trim(lines) == TrimRight(TrimLeft(lines))

\* The loop of readJsonl: JSON.parse of each line, a throw skips the line.
RECURSIVE ParseLines(_)
ParseLines(lines) ==
    IF lines = <<>> THEN <<>>
    ELSE (IF Parses(Head(lines)) THEN <<Head(lines)>> ELSE <<>>)
         \o ParseLines(Tail(lines))

\* The same loop with the try around the whole loop: the first bad line ends it.
RECURSIVE ParseLinesUntilBad(_)
ParseLinesUntilBad(lines) ==
    IF lines = <<>> \/ ~Parses(Head(lines)) THEN <<>>
    ELSE <<Head(lines)>> \o ParseLinesUntilBad(Tail(lines))

readJsonlUntilBad(f) ==
    IF ~f.exists THEN Ok(<<>>)
    ELSE IF ~f.readable THEN Raise
    ELSE Ok(ParseLinesUntilBad(Trim(f.lines)))

readJsonl(f) ==
    IF ~f.exists THEN Ok(<<>>)
    ELSE IF ~f.readable THEN Raise
    ELSE LET raw == Trim(f.lines)
         IN  IF raw = <<>> THEN Ok(<<>>) ELSE Ok(ParseLines(raw))

(***************************************************************************)
(* Records of the three logs (src/src/types.ts).                           *)
(***************************************************************************)
\* HistoryEntry: one line of the flat history log.
HistoryEntry(display, timestamp, project, sessionId) ==
    [kind |-> "rec", display |-> display, timestamp |-> timestamp,
     project |-> project, sessionId |-> sessionId]
HistoryNull == [HistoryEntry(UNDEF, NoTs, NoPath, UNDEF) EXCEPT !.kind = "null"]
HistoryBad  == [HistoryEntry(UNDEF, NoTs, NoPath, UNDEF) EXCEPT !.kind = "bad"]

\* ContentBlock; a missing text or name is "".
ContentBlock(type, text, name) == [type |-> type, text |-> text, name |-> name]

\* message.content: absent, a string, or an array of blocks.
NoContent == [k |-> "none", text |-> "", blocks |-> <<>>]
TextContent(t) == [k |-> "string", text |-> t, blocks |-> <<>>]
BlockContent(bs) == [k |-> "blocks", text |-> "", blocks |-> bs]

\* message.usage: absent, or the two counters.
NoUsage == [present |-> FALSE, input_tokens |-> 0, output_tokens |-> 0]
TokenUsage(i, o) == [present |-> TRUE, input_tokens |-> i, output_tokens |-> o]

\* ConversationMessage: one line of a primary transcript.
ConversationMessage(type, timestamp, sessionId, cwd, gitBranch, usage, content) ==
    [kind |-> "rec", type |-> type, timestamp |-> timestamp, sessionId |-> sessionId,
     cwd |-> cwd, gitBranch |-> gitBranch, usage |-> usage, content |-> content]
MessageNull ==
    [ConversationMessage(UNDEF, NoTs, UNDEF, NoPath, UNDEF, NoUsage, NoContent)
        EXCEPT !.kind = "null"]
MessageBad ==
    [ConversationMessage(UNDEF, NoTs, UNDEF, NoPath, UNDEF, NoUsage, NoContent)
        EXCEPT !.kind = "bad"]

\* AuditEntry: one line of a secondary audit file.
AuditEntry(type, timestamp, session_id, content) ==
    [kind |-> "rec", type |-> type, audit_timestamp |-> timestamp,
     session_id |-> session_id, content |-> content]
AuditNull == [AuditEntry(UNDEF, NoTs, UNDEF, NoContent) EXCEPT !.kind = "null"]
AuditBad  == [AuditEntry(UNDEF, NoTs, UNDEF, NoContent) EXCEPT !.kind = "bad"]

\* Truthiness of an optional string field.
TruthyStr(s) == s # UNDEF /\ s # ""

\* Reading a property of null throws a TypeError.
IsNull(rec) == rec.kind = "null"
HasNull(recs) == \E i \in 1..Len(recs) : IsNull(recs[i])

(***************************************************************************)
(* Claude Code collection.                                                 *)
(***************************************************************************)
UserPrompt(text, timestamp, sessionId, project) ==
    [text |-> text, timestamp |-> timestamp, sessionId |-> sessionId,
     project |-> project]

\* One history entry throws: it is null, or it is in-day and has no project path
\* (basename of undefined), or its date is invalid when toISOString is reached.
HistoryEntryThrows(entry, today) ==
    \/ IsNull(entry)
    \/ /\ isSameDay(entry.timestamp, today)
       /\ (~IsValidDate(entry.timestamp) \/ ~entry.project.present)

HistoryPrompt(entry) ==
    UserPrompt(entry.display, toISOString(entry.timestamp), entry.sessionId,
               extractProjectName(entry.project))

\* collectCodePrompts without the isSameDay test.
collectCodePromptsAllDays(today) ==
    LET read == readJsonl(history)
    IN  IF read.raised THEN Raise
        ELSE IF \E i \in 1..Len(read.val) : HistoryEntryThrows(read.val[i], today)
        THEN Raise
        ELSE Ok(Map(read.val, HistoryPrompt))

collectCodePrompts(today) ==
    LET read == readJsonl(history)
    IN  IF read.raised THEN Raise
        ELSE IF \E i \in 1..Len(read.val) : HistoryEntryThrows(read.val[i], today)
        THEN Raise
        ELSE LET InDay(entry) == isSameDay(entry.timestamp, today)
             IN  Ok(Map(Filter(read.val, InDay), HistoryPrompt))

\* A directory entry of a project directory: its name is stem followed by ext.
DirEntry(stem, ext, f) == [stem |-> stem, ext |-> ext, file |-> f]
JsonlExt == ".jsonl"

\* One project directory: readdirSync on it may throw (a file, no permission).
ProjectDir(listable, entries) == [listable |-> listable, entries |-> entries]

\* The files of one project directory whose name minus ".jsonl" is a session id.
ProjectMatches(dir, sessionIds) ==
    IF ~dir.listable THEN <<>>
    ELSE LET Match(entry) == entry.ext = JsonlExt /\ entry.stem \in sessionIds
             FileOf(entry) == entry.file
         IN  Map(Filter(dir.entries, Match), FileOf)

RECURSIVE Concat(_)
Concat(seqs) == IF seqs = <<>> THEN <<>> ELSE Head(seqs) \o Concat(Tail(seqs))

\* findCodeSessionFiles without the existsSync test: readdirSync throws ENOENT.
findCodeSessionFilesUnchecked(sessionIds) ==
    IF ~projects.exists \/ ~projects.isDir THEN Raise
    ELSE LET Of(dir) == ProjectMatches(dir, sessionIds)
         IN  Ok(Concat(Map(projects.dirs, Of)))

\* findCodeSessionFiles throwing for a session id without a transcript file.
findCodeSessionFilesStrict(sessionIds) ==
    IF ~projects.exists THEN (IF sessionIds = {} THEN Ok(<<>>) ELSE Raise)
    ELSE IF ~projects.isDir THEN Raise
    ELSE LET Of(dir) == ProjectMatches(dir, sessionIds)
             Has(id) == \E d \in 1..Len(projects.dirs) : ProjectMatches(projects.dirs[d], {id}) # <<>>
         IN  IF \A id \in sessionIds : Has(id)
             THEN Ok(Concat(Map(projects.dirs, Of)))
             ELSE Raise

\* findCodeSessionFiles taking every .jsonl file, referenced or not.
findCodeSessionFilesAll(sessionIds) ==
    IF ~projects.exists THEN Ok(<<>>)
    ELSE IF ~projects.isDir THEN Raise
    ELSE LET FileOf(entry) == entry.file
             IsJsonl(entry) == entry.ext = JsonlExt
             Of(dir) == IF dir.listable THEN Map(Filter(dir.entries, IsJsonl), FileOf)
                        ELSE <<>>
         IN  Ok(Concat(Map(projects.dirs, Of)))

findCodeSessionFiles(sessionIds) ==
    IF ~projects.exists THEN Ok(<<>>)
    ELSE IF ~projects.isDir THEN Raise
    ELSE LET Of(dir) == ProjectMatches(dir, sessionIds)
         IN  Ok(Concat(Map(projects.dirs, Of)))

\* The scan of an assistant message's content blocks for tool invocations:
\* the running count and the distinct names in first-seen order.
ToolStep(acc, block) ==
    IF block.type = "tool_use" /\ block.name # ""
    THEN [acc EXCEPT !.toolCallCount = @ + 1,
                     !.toolNames = IF \E i \in 1..Len(@) : @[i] = block.name
                                   THEN @ ELSE Append(@, block.name)]
    ELSE acc

ScanTools(acc, content) ==
    IF content.k = "blocks" THEN Reduce(content.blocks, ToolStep, acc) ELSE acc

\* The running earliest and latest timestamp, compared as strings.
TrackTimes(acc, ts) ==
    [acc EXCEPT
        !.startTime = IF ~Truthy(@) \/ StrLess(ts, @) THEN ts ELSE @,
        !.endTime   = IF ~Truthy(@) \/ StrLess(@, ts) THEN ts ELSE @]

CodeAcc0 ==
    [userCount |-> 0, assistantCount |-> 0, toolCallCount |-> 0, toolNames |-> <<>>,
     inputTokens |-> 0, outputTokens |-> 0, startTime |-> NoTs, endTime |-> NoTs,
     sessionId |-> "", project |-> "", gitBranch |-> UNDEF]

\* Variants of the loop body: everyDay drops the test of the day, userUsage
\* counts the usage and the tool blocks of user records too, clears resets an
\* identity field on a record that lacks it.
CodeStepVariant(acc, msg, today, everyDay, userUsage, clears) ==
    IF msg.type = "file-history-snapshot" THEN acc
    ELSE IF ~Truthy(msg.timestamp) THEN acc
    ELSE IF ~everyDay /\ ~isSameDay(msg.timestamp, today) THEN acc
    ELSE LET a1 == TrackTimes(acc, msg.timestamp)
             a2 == [a1 EXCEPT
                      !.sessionId = IF TruthyStr(msg.sessionId) THEN msg.sessionId
                                    ELSE IF clears THEN "" ELSE @,
                      !.gitBranch = IF TruthyStr(msg.gitBranch) THEN msg.gitBranch
                                    ELSE IF clears THEN UNDEF ELSE @,
                      !.project   = IF msg.cwd.present THEN extractProjectName(msg.cwd)
                                    ELSE IF clears THEN "" ELSE @]
             used == [a2 EXCEPT
                        !.inputTokens = @ + (IF msg.usage.present
                                             THEN msg.usage.input_tokens ELSE 0),
                        !.outputTokens = @ + (IF msg.usage.present
                                              THEN msg.usage.output_tokens ELSE 0)]
         IN  IF msg.type = "user"
             THEN IF userUsage
                  THEN ScanTools([used EXCEPT !.userCount = @ + 1], msg.content)
                  ELSE [a2 EXCEPT !.userCount = @ + 1]
             ELSE IF msg.type = "assistant"
             THEN ScanTools([used EXCEPT !.assistantCount = @ + 1], msg.content)
             ELSE a2

\* The loop body without the test of the day.
CodeStepEveryDay(acc, msg, today) == CodeStepVariant(acc, msg, today, TRUE, FALSE, FALSE)
\* The loop body counting usage and tool blocks of user records as well.
CodeStepUserUsage(acc, msg, today) == CodeStepVariant(acc, msg, today, FALSE, TRUE, FALSE)
\* The loop body resetting session id, branch and project on a record without them.
CodeStepClearing(acc, msg, today) == CodeStepVariant(acc, msg, today, FALSE, FALSE, TRUE)

\* The body of the loop of parseCodeSessionFile for one message.
CodeStep(acc, msg, today) ==
    IF msg.type = "file-history-snapshot" THEN acc
    ELSE IF ~Truthy(msg.timestamp) \/ ~isSameDay(msg.timestamp, today) THEN acc
    ELSE LET a1 == TrackTimes(acc, msg.timestamp)
             a2 == [a1 EXCEPT
                      !.sessionId = IF TruthyStr(msg.sessionId) THEN msg.sessionId ELSE @,
                      !.gitBranch = IF TruthyStr(msg.gitBranch) THEN msg.gitBranch ELSE @,
                      !.project   = IF msg.cwd.present
                                    THEN extractProjectName(msg.cwd) ELSE @]
         IN  IF msg.type = "user" THEN [a2 EXCEPT !.userCount = @ + 1]
             ELSE IF msg.type = "assistant"
             THEN LET a3 == [a2 EXCEPT
                               !.assistantCount = @ + 1,
                               !.inputTokens = @ + (IF msg.usage.present
                                                    THEN msg.usage.input_tokens ELSE 0),
                               !.outputTokens = @ + (IF msg.usage.present
                                                     THEN msg.usage.output_tokens ELSE 0)]
                  IN  ScanTools(a3, msg.content)
             ELSE a2

CodeFold(messages, today) ==
    LET Step(acc, msg) == CodeStep(acc, msg, today)
    IN  Reduce(messages, Step, CodeAcc0)

SessionSummary(acc, sessionId, project, source, inputTokens, outputTokens, gitBranch) ==
    [sessionId |-> sessionId, project |-> project, source |-> source,
     messageCount |-> acc.userCount + acc.assistantCount,
     userMessageCount |-> acc.userCount,
     assistantMessageCount |-> acc.assistantCount,
     toolCallCount |-> acc.toolCallCount, toolNames |-> acc.toolNames,
     inputTokens |-> inputTokens, outputTokens |-> outputTokens,
     startTime |-> acc.startTime, endTime |-> acc.endTime, gitBranch |-> gitBranch]

CodeSummary(acc) ==
    SessionSummary(acc, acc.sessionId, acc.project, "claude-code",
                   acc.inputTokens, acc.outputTokens, acc.gitBranch)

\* The summary of one transcript: <<>> is the null return, <<s>> the summary s.
\* parseCodeSessionFileZero lacks the final null return for an empty fold.
parseCodeSessionFileZero(f, today) ==
    LET read == readJsonl(f)
    IN  IF read.raised THEN Raise
        ELSE IF read.val = <<>> THEN Ok(<<>>)
        ELSE IF HasNull(read.val) THEN Raise
        ELSE Ok(<<CodeSummary(CodeFold(read.val, today))>>)

parseCodeSessionFile(f, today) ==
    LET read == readJsonl(f)
    IN  IF read.raised THEN Raise
        ELSE IF read.val = <<>> THEN Ok(<<>>)
        ELSE IF HasNull(read.val) THEN Raise
        ELSE LET acc == CodeFold(read.val, today)
             IN  IF acc.userCount = 0 /\ acc.assistantCount = 0 THEN Ok(<<>>)
                 ELSE Ok(<<CodeSummary(acc)>>)

AnyRaised(results) == \E i \in 1..Len(results) : results[i].raised
Vals(results) == LET V(r) == r.val IN Concat(Map(results, V))

collectCodeSessions(today) ==
    LET prompts == collectCodePrompts(today)
    IN  IF prompts.raised THEN Raise
        ELSE
        LET sessionIds == {prompts.val[i].sessionId : i \in 1..Len(prompts.val)}
            sessionFiles == findCodeSessionFiles(sessionIds)
        IN  IF sessionFiles.raised THEN Raise
            ELSE
            LET Parse(f) == parseCodeSessionFile(f, today)
                parsed == Map(sessionFiles.val, Parse)
            IN  IF AnyRaised(parsed) THEN Raise
                ELSE Ok([prompts |-> prompts.val, sessions |-> Vals(parsed)])

(***************************************************************************)
(* Claude Desktop App collection.                                          *)
(*                                                                         *)
(* The tree is workspace / user / session directory.  statSync on an       *)
(* entry says "dir" or "file", or throws ("err"); readdirSync on a         *)
(* directory throws when it is not listable.                               *)
(***************************************************************************)
\* The sibling metadata file: missing, unparseable, or its title and session id.
DesktopSessionMeta(title, sessionId) ==
    [exists |-> TRUE, parses |-> TRUE, title |-> title, sessionId |-> sessionId]
MissingMeta == [exists |-> FALSE, parses |-> FALSE, title |-> "", sessionId |-> ""]
BrokenMeta  == [exists |-> TRUE, parses |-> FALSE, title |-> "", sessionId |-> ""]

SessionEntry(prefixed, stat, audit, meta) ==
    [prefixed |-> prefixed, stat |-> stat, audit |-> audit, meta |-> meta]
UserDir(stat, listable, entries) ==
    [stat |-> stat, listable |-> listable, entries |-> entries]
WorkspaceDir(stat, listable, users) ==
    [stat |-> stat, listable |-> listable, users |-> users]

Found(res) == [res |-> res, thrown |-> FALSE]
Thrown(res) == [res |-> res, thrown |-> TRUE]

\* The innermost loop of findDesktopAuditFiles, over the entries of a user directory.
RECURSIVE WalkEntries(_)
WalkEntries(entries) ==
    IF entries = <<>> THEN Found(<<>>)
    ELSE LET entry == Head(entries)
         IN  IF entry.prefixed /\ entry.stat = "err" THEN Thrown(<<>>)
             ELSE LET rest == WalkEntries(Tail(entries))
                      here == IF entry.prefixed /\ entry.stat = "dir" /\ entry.audit.exists
                              THEN <<[auditPath |-> entry.audit, metaPath |-> entry.meta]>>
                              ELSE <<>>
                  IN  [res |-> here \o rest.res, thrown |-> rest.thrown]

\* The middle loop, over the user directories of a workspace.
RECURSIVE WalkUsers(_)
WalkUsers(users) ==
    IF users = <<>> THEN Found(<<>>)
    ELSE LET user == Head(users)
         IN  IF user.stat = "err" THEN Thrown(<<>>)
             ELSE IF user.stat # "dir" THEN WalkUsers(Tail(users))
             ELSE IF ~user.listable THEN Thrown(<<>>)
             ELSE LET inner == WalkEntries(user.entries)
                  IN  IF inner.thrown THEN inner
                      ELSE LET rest == WalkUsers(Tail(users))
                           IN  [res |-> inner.res \o rest.res, thrown |-> rest.thrown]

\* The outer loop, over the workspaces.
RECURSIVE WalkWorkspaces(_)
WalkWorkspaces(workspaces) ==
    IF workspaces = <<>> THEN Found(<<>>)
    ELSE LET workspace == Head(workspaces)
         IN  IF workspace.stat = "err" THEN Thrown(<<>>)
             ELSE IF workspace.stat # "dir" THEN WalkWorkspaces(Tail(workspaces))
             ELSE IF ~workspace.listable THEN Thrown(<<>>)
             ELSE LET inner == WalkUsers(workspace.users)
                  IN  IF inner.thrown THEN inner
                      ELSE LET rest == WalkWorkspaces(Tail(workspaces))
                           IN  [res |-> inner.res \o rest.res, thrown |-> rest.thrown]

\* The try around the traversal keeps what was found before a throw.
findDesktopAuditFiles ==
    IF ~desktop.exists THEN <<>>
    ELSE IF ~desktop.listable THEN <<>>
    ELSE WalkWorkspaces(desktop.workspaces).res

DefaultTitle == "Claude App"
AppLabel(title) == "[App] " \o title

\* Array.prototype.join.
RECURSIVE Join(_, _)
Join(texts, sep) ==
    IF texts = <<>> THEN ""
    ELSE IF Len(texts) = 1 THEN texts[1]
    ELSE texts[1] \o sep \o Join(Tail(texts), sep)

\* The text of a user record's message content, its blocks joined without a space.
PromptTextUnspaced(content) ==
    IF content.k = "string" THEN content.text
    ELSE IF content.k = "blocks"
    THEN LET IsText(b) == b.type = "text" /\ b.text # ""
             TextOf(b) == b.text
         IN  Join(Map(Filter(content.blocks, IsText), TextOf), "")
    ELSE ""

\* The text of a user record's message content.
PromptText(content) ==
    IF content.k = "string" THEN content.text
    ELSE IF content.k = "blocks"
    THEN LET IsText(b) == b.type = "text" /\ b.text # ""
             TextOf(b) == b.text
         IN  Join(Map(Filter(content.blocks, IsText), TextOf), " ")
    ELSE ""

DesktopAcc0(sessionId) ==
    [userCount |-> 0, assistantCount |-> 0, toolCallCount |-> 0, toolNames |-> <<>>,
     startTime |-> NoTs, endTime |-> NoTs, hasTodayMessages |-> FALSE,
     sessionId |-> sessionId, prompts |-> <<>>]

\* DesktopStep pushing a prompt for a user record whatever its text.
DesktopStepEveryUser(acc, entry, title, today) ==
    IF ~Truthy(entry.audit_timestamp) \/ ~isSameDay(entry.audit_timestamp, today)
    THEN acc
    ELSE LET a1 == [TrackTimes(acc, entry.audit_timestamp) EXCEPT
                      !.hasTodayMessages = TRUE,
                      !.sessionId = IF ~TruthyStr(@) /\ TruthyStr(entry.session_id)
                                    THEN entry.session_id ELSE @]
         IN  IF entry.type = "user"
             THEN LET text == PromptText(entry.content)
                      prompt == UserPrompt(text, entry.audit_timestamp,
                                           IF TruthyStr(a1.sessionId) THEN a1.sessionId
                                           ELSE entry.session_id,
                                           AppLabel(title))
                  IN  [a1 EXCEPT !.userCount = @ + 1,
                                 !.prompts = Append(@, prompt)]
             ELSE IF entry.type = "assistant"
             THEN ScanTools([a1 EXCEPT !.assistantCount = @ + 1], entry.content)
             ELSE a1

\* The body of the loop of parseDesktopSession for one audit entry.
DesktopStep(acc, entry, title, today) ==
    IF ~Truthy(entry.audit_timestamp) \/ ~isSameDay(entry.audit_timestamp, today)
    THEN acc
    ELSE LET a1 == [TrackTimes(acc, entry.audit_timestamp) EXCEPT
                      !.hasTodayMessages = TRUE,
                      !.sessionId = IF ~TruthyStr(@) /\ TruthyStr(entry.session_id)
                                    THEN entry.session_id ELSE @]
         IN  IF entry.type = "user"
             THEN LET text == PromptText(entry.content)
                      prompt == UserPrompt(text, entry.audit_timestamp,
                                           IF TruthyStr(a1.sessionId) THEN a1.sessionId
                                           ELSE entry.session_id,
                                           AppLabel(title))
                  IN  [a1 EXCEPT !.userCount = @ + 1,
                                 !.prompts = IF text # "" THEN Append(@, prompt) ELSE @]
             ELSE IF entry.type = "assistant"
             THEN ScanTools([a1 EXCEPT !.assistantCount = @ + 1], entry.content)
             ELSE a1

\* The title and session id read from the metadata file, with their defaults.
MetaTitle(meta) ==
    IF meta.exists /\ meta.parses /\ TruthyStr(meta.title) THEN meta.title
    ELSE DefaultTitle
MetaSessionId(meta) ==
    IF meta.exists /\ meta.parses /\ TruthyStr(meta.sessionId) THEN meta.sessionId
    ELSE ""

\* parseDesktopSession without the try around the parse of the metadata file.
parseDesktopSessionStrictMeta(auditPath, metaPath, today) ==
    LET read == readJsonl(auditPath)
        title == MetaTitle(metaPath)
    IN  IF read.raised \/ HasNull(read.val) THEN Raise
        ELSE IF metaPath.exists /\ ~metaPath.parses THEN Raise
        ELSE LET Step(a, entry) == DesktopStep(a, entry, title, today)
                 acc == Reduce(read.val, Step, DesktopAcc0(MetaSessionId(metaPath)))
             IN  IF ~acc.hasTodayMessages
                 THEN Ok([prompts |-> <<>>, session |-> <<>>])
                 ELSE Ok([prompts |-> acc.prompts,
                          session |-> <<SessionSummary(acc, acc.sessionId, AppLabel(title),
                                                       "claude-app", 0, 0, UNDEF)>>])

\* The outcome of one audit file: its prompts and <<>> (null) or <<summary>>.
parseDesktopSession(auditPath, metaPath, today) ==
    LET read == readJsonl(auditPath)
        title == MetaTitle(metaPath)
    IN  IF read.raised \/ HasNull(read.val) THEN Raise
        ELSE LET Step(a, entry) == DesktopStep(a, entry, title, today)
                 acc == Reduce(read.val, Step, DesktopAcc0(MetaSessionId(metaPath)))
             IN  IF ~acc.hasTodayMessages
                 THEN Ok([prompts |-> <<>>, session |-> <<>>])
                 ELSE Ok([prompts |-> acc.prompts,
                          session |-> <<SessionSummary(acc, acc.sessionId, AppLabel(title),
                                                       "claude-app", 0, 0, UNDEF)>>])

\* The sessions of one parsed audit file that collectDesktopSessions keeps.
KeptSessions(result) ==
    LET HasMessages(session) == session.messageCount > 0
    IN  Filter(result.session, HasMessages)

\* collectDesktopSessions without the messageCount > 0 test.
collectDesktopSessionsUnfiltered(today) ==
    LET Parse(a) == parseDesktopSession(a.auditPath, a.metaPath, today)
        parsed == Map(findDesktopAuditFiles, Parse)
        PromptsOf(r) == r.val.prompts
        SessionOf(r) == r.val.session
    IN  IF AnyRaised(parsed) THEN Raise
        ELSE Ok([prompts |-> Concat(Map(parsed, PromptsOf)),
                 sessions |-> Concat(Map(parsed, SessionOf))])

collectDesktopSessions(today) ==
    LET Parse(a) == parseDesktopSession(a.auditPath, a.metaPath, today)
        parsed == Map(findDesktopAuditFiles, Parse)
        PromptsOf(r) == r.val.prompts
        SessionsOf(r) == KeptSessions(r.val)
    IN  IF AnyRaised(parsed) THEN Raise
        ELSE Ok([prompts |-> Concat(Map(parsed, PromptsOf)),
                 sessions |-> Concat(Map(parsed, SessionsOf))])

(***************************************************************************)
(* Combined collector.                                                     *)
(***************************************************************************)
\* Array.prototype.sort with the comparator of collectToday: ascending by the
\* instant of the timestamp, and stable, so an element goes after every element
\* already placed whose instant is not later.
InsertByTime(sorted, p) ==
    LET later == {i \in 1..Len(sorted) :
                    Instant(sorted[i].timestamp) > Instant(p.timestamp)}
        at == IF later = {} THEN Len(sorted) + 1
              ELSE CHOOSE i \in later : \A j \in later : i <= j
    IN  SubSeq(sorted, 1, at - 1) \o <<p>> \o SubSeq(sorted, at, Len(sorted))

SortByTime(prompts) == Reduce(prompts, InsertByTime, <<>>)

\* [...new Set(labels)]: the distinct labels in first-seen order.
AddDistinct(seen, x) ==
    IF \E i \in 1..Len(seen) : seen[i] = x THEN seen ELSE Append(seen, x)
Distinct(labels) == Reduce(labels, AddDistinct, <<>>)

SumTokens(acc, sess) == acc + sess.inputTokens + sess.outputTokens
SumInputTokens(acc, sess) == acc + sess.inputTokens
SumMessages(acc, sess) == acc + sess.messageCount
SumToolCalls(acc, sess) == acc + sess.toolCallCount

\* The outcome of a run: none yet, an exception, or the CollectedData returned.
NoRun ==
    [ran |-> FALSE, raised |-> FALSE, date |-> NaNDay, prompts |-> <<>>,
     sessions |-> <<>>, totalTokens |-> 0, totalMessages |-> 0, totalToolCalls |-> 0,
     projectsWorkedOn |-> <<>>]
RaisedRun(today) == [NoRun EXCEPT !.ran = TRUE, !.raised = TRUE, !.date = today]
CollectedData(today, prompts, sessions, totalTokens) ==
    LET ProjectOf(p) == p.project
    IN  [ran |-> TRUE, raised |-> FALSE, date |-> today, prompts |-> prompts,
         sessions |-> sessions, totalTokens |-> totalTokens,
         totalMessages |-> Reduce(sessions, SumMessages, 0),
         totalToolCalls |-> Reduce(sessions, SumToolCalls, 0),
         projectsWorkedOn |-> Distinct(Map(prompts, ProjectOf))]

\* collectToday with the prompts left in concatenation order.
collectTodayUnsorted(today) ==
    LET code == collectCodeSessions(today)
        app == collectDesktopSessions(today)
    IN  IF code.raised \/ app.raised THEN RaisedRun(today)
        ELSE LET sessions == code.val.sessions \o app.val.sessions
             IN  CollectedData(today, code.val.prompts \o app.val.prompts, sessions,
                               Reduce(sessions, SumTokens, 0))

\* collectToday with totalTokens summing the input tokens only.
collectTodayInputOnly(today) ==
    LET code == collectCodeSessions(today)
        app == collectDesktopSessions(today)
    IN  IF code.raised \/ app.raised THEN RaisedRun(today)
        ELSE LET sessions == code.val.sessions \o app.val.sessions
             IN  CollectedData(today, SortByTime(code.val.prompts \o app.val.prompts),
                               sessions, Reduce(sessions, SumInputTokens, 0))

\* collectToday with the prompt array kept at module level and never cleared.
collectTodayAccumulating(today) ==
    LET code == collectCodeSessions(today)
        app == collectDesktopSessions(today)
    IN  IF code.raised \/ app.raised THEN RaisedRun(today)
        ELSE LET sessions == code.val.sessions \o app.val.sessions
             IN  CollectedData(today,
                               SortByTime(last.prompts \o code.val.prompts
                                          \o app.val.prompts),
                               sessions, Reduce(sessions, SumTokens, 0))

\* collectToday with the labels of the summaries added to those of the prompts.
collectTodaySessionLabels(today) ==
    LET code == collectCodeSessions(today)
        app == collectDesktopSessions(today)
        ProjectOf(x) == x.project
    IN  IF code.raised \/ app.raised THEN RaisedRun(today)
        ELSE LET sessions == code.val.sessions \o app.val.sessions
                 prompts == SortByTime(code.val.prompts \o app.val.prompts)
             IN  [CollectedData(today, prompts, sessions, Reduce(sessions, SumTokens, 0))
                    EXCEPT !.projectsWorkedOn =
                               Distinct(Map(prompts, ProjectOf) \o Map(sessions, ProjectOf))]

\* collectToday with a sort that puts an element in front of those of the same
\* instant.
collectTodayReversingTies(today) ==
    LET code == collectCodeSessions(today)
        app == collectDesktopSessions(today)
        InsertInFront(sorted, p) ==
            LET notEarlier == {i \in 1..Len(sorted) :
                                 Instant(sorted[i].timestamp) >= Instant(p.timestamp)}
                at == IF notEarlier = {} THEN Len(sorted) + 1
                      ELSE CHOOSE i \in notEarlier : \A j \in notEarlier : i <= j
            IN  SubSeq(sorted, 1, at - 1) \o <<p>> \o SubSeq(sorted, at, Len(sorted))
    IN  IF code.raised \/ app.raised THEN RaisedRun(today)
        ELSE LET sessions == code.val.sessions \o app.val.sessions
             IN  CollectedData(today,
                               Reduce(code.val.prompts \o app.val.prompts,
                                      InsertInFront, <<>>),
                               sessions, Reduce(sessions, SumTokens, 0))

\* collectToday keeping one summary per session id, the first.
collectTodayMerging(today) ==
    LET code == collectCodeSessions(today)
        app == collectDesktopSessions(today)
        AddNew(kept, sess) ==
            IF \E i \in 1..Len(kept) : kept[i].sessionId = sess.sessionId
            THEN kept ELSE Append(kept, sess)
    IN  IF code.raised \/ app.raised THEN RaisedRun(today)
        ELSE LET sessions == Reduce(code.val.sessions \o app.val.sessions, AddNew, <<>>)
             IN  CollectedData(today, SortByTime(code.val.prompts \o app.val.prompts),
                               sessions, Reduce(sessions, SumTokens, 0))

collectToday(today) ==
    LET code == collectCodeSessions(today)
        app == collectDesktopSessions(today)
    IN  IF code.raised \/ app.raised THEN RaisedRun(today)
        ELSE LET sessions == code.val.sessions \o app.val.sessions
             IN  CollectedData(today, SortByTime(code.val.prompts \o app.val.prompts),
                               sessions, Reduce(sessions, SumTokens, 0))

(***************************************************************************)
(* The log environments the runs start from, and the records the producers *)
(* (Claude Code and the Claude desktop app) append.  Day 1 is hours 24..47 *)
(* and day 2 hours 48..71 in UTC.                                          *)
(***************************************************************************)
Days == {1, 2}

ProjX == Path(<<"home", "u", "proj-x">>)
ProjY == Path(<<"w", "proj-y">>)

HistoryPool ==
    { HistoryEntry("fix bug", Num(34), ProjX, "a"),
      HistoryEntry("add test", Num(31), ProjY, "b"),
      HistoryEntry("later", Num(58), ProjX, "a"),
      HistoryEntry("undated", NoTs, ProjX, "a"),
      HistoryEntry("garbled", BadTs, ProjX, "a"),
      HistoryEntry("no project", Num(40), NoPath, "a"),
      HistoryNull,
      HistoryBad }

MessagePool ==
    { ConversationMessage("user", Iso(34, 0), "a", ProjX, "main", NoUsage,
                          TextContent("fix bug")),
      ConversationMessage("assistant", Iso(36, 5), "a", NoPath, UNDEF, TokenUsage(50, 20),
                          BlockContent(<<ContentBlock("text", "ok", ""),
                                         ContentBlock("tool_use", "", "Bash")>>)),
      ConversationMessage("assistant", Iso(58, 0), "a", ProjY, "dev", TokenUsage(7, 3),
                          BlockContent(<<ContentBlock("tool_use", "", "Read")>>)),
      ConversationMessage("file-history-snapshot", Iso(35, 0), "z", ProjY, "tmp",
                          NoUsage, NoContent),
      ConversationMessage("user", NoTs, "z", ProjY, "tmp", NoUsage, TextContent("x")),
      MessageNull,
      MessageBad }

AuditPool ==
    { AuditEntry("user", Iso(33, 0), "s1", TextContent("hello")),
      AuditEntry("user", Iso(36, 5), "s1",
                 BlockContent(<<ContentBlock("text", "a", ""),
                                ContentBlock("text", "b", "")>>)),
      AuditEntry("assistant", Iso(35, 0), "s1",
                 BlockContent(<<ContentBlock("tool_use", "", "WebSearch")>>)),
      AuditEntry("tool", Iso(35, 0), "s1", NoContent),
      AuditEntry("user", Iso(58, 0), "s1", TextContent("next day")),
      AuditEntry("user", BadTs, "s1", TextContent("garbled")),
      AuditNull,
      AuditBad }

\* ~/.claude/projects with one project directory holding the transcript a.jsonl.
ProjectsWith(f) ==
    [exists |-> TRUE, isDir |-> TRUE,
     dirs |-> <<ProjectDir(TRUE, <<DirEntry("a", JsonlExt, f)>>)>>]
NoProjects == [exists |-> FALSE, isDir |-> FALSE, dirs |-> <<>>]

\* The desktop tree with one workspace, one user and the session directory local_1.
DesktopWith(f) ==
    [exists |-> TRUE, listable |-> TRUE,
     workspaces |->
        <<WorkspaceDir("dir", TRUE,
            <<UserDir("dir", TRUE,
                <<SessionEntry(TRUE, "dir", f, DesktopSessionMeta("Chat", "s1"))>>)>>)>>]
NoDesktop == [exists |-> FALSE, listable |-> FALSE, workspaces |-> <<>>]

Layouts ==
    { [projects |-> ProjectsWith(TextFile(<<>>)), desktop |-> DesktopWith(TextFile(<<>>))],
      [projects |-> NoProjects,                   desktop |-> DesktopWith(TextFile(<<>>))],
      [projects |-> ProjectsWith(UnreadableFile), desktop |-> NoDesktop] }

\* The lines on disk, all files together.
SumLens(seq, LenOf(_)) ==
    LET Add(n, x) == n + LenOf(x) IN Reduce(seq, Add, 0)
TranscriptLines ==
    LET OfEntry(entry) == Len(entry.file.lines)
        OfDir(dir) == SumLens(dir.entries, OfEntry)
    IN  SumLens(projects.dirs, OfDir)
AuditLines ==
    LET OfEntry(entry) == Len(entry.audit.lines)
        OfUser(user) == SumLens(user.entries, OfEntry)
        OfWorkspace(workspace) == SumLens(workspace.users, OfUser)
    IN  SumLens(desktop.workspaces, OfWorkspace)
TotalLines == Len(history.lines) + TranscriptLines + AuditLines

NotRead == [read |-> FALSE, raised |-> FALSE, val |-> <<>>]

\* The coach's own files before its first command.
NoState == [exists |-> FALSE, lacks |-> {}]
NoCommand == [cmd |-> "none", outcome |-> "none"]
NoProcess == [spawned |-> FALSE]
StorageIdle ==
    /\ stateFile = NoState
    /\ insightsFile = <<>>
    /\ run = NoCommand
    /\ now = 1
    /\ proc = NoProcess

Init ==
    /\ history = MissingFile
    /\ \E layout \in Layouts :
          /\ projects = layout.projects
          /\ desktop = layout.desktop
    /\ last = NoRun
    /\ prev = NoRun
    /\ file = MissingFile
    /\ items = NotRead
    /\ StorageIdle

(***************************************************************************)
(* The producers.  Each appends one record to a log; a snapshot taken      *)
(* before is no longer the snapshot of the logs as they are.               *)
(***************************************************************************)
AppendHistory(line) ==
    /\ TotalLines < MaxLines
    /\ history' = TextFile(Append(history.lines, line))
    /\ last' = NoRun
    /\ prev' = NoRun
    /\ UNCHANGED <<projects, desktop, file, items,
                 stateFile, insightsFile, run, now, proc>>

AppendTranscript(d, e, msg) ==
    /\ TotalLines < MaxLines
    /\ projects.dirs[d].entries[e].file.readable
    /\ projects' = [projects EXCEPT !.dirs[d].entries[e].file.lines = Append(@, msg)]
    /\ last' = NoRun
    /\ prev' = NoRun
    /\ UNCHANGED <<history, desktop, file, items,
                 stateFile, insightsFile, run, now, proc>>

AppendAudit(w, u, e, entry) ==
    /\ TotalLines < MaxLines
    /\ desktop.workspaces[w].users[u].entries[e].audit.readable
    /\ desktop' = [desktop EXCEPT
                     !.workspaces[w].users[u].entries[e].audit.lines = Append(@, entry)]
    /\ last' = NoRun
    /\ prev' = NoRun
    /\ UNCHANGED <<history, projects, file, items,
                 stateFile, insightsFile, run, now, proc>>

\* One run of the collector for the day `today`.
CollectToday(today) ==
    /\ last' = collectToday(today)
    /\ prev' = last
    /\ UNCHANGED <<history, projects, desktop, file, items,
                 stateFile, insightsFile, run, now, proc>>

AppendSomeTranscript ==
    \E d \in 1..Len(projects.dirs) : \E e \in 1..Len(projects.dirs[d].entries) :
        \E msg \in MessagePool : AppendTranscript(d, e, msg)

AppendSomeAudit ==
    \E w \in 1..Len(desktop.workspaces) :
        \E u \in 1..Len(desktop.workspaces[w].users) :
            \E e \in 1..Len(desktop.workspaces[w].users[u].entries) :
                \E entry \in AuditPool : AppendAudit(w, u, e, entry)

Next ==
    \/ \E line \in HistoryPool : AppendHistory(line)
    \/ AppendSomeTranscript
    \/ AppendSomeAudit
    \/ \E today \in Days : CollectToday(today)

Spec == Init /\ [][Next]_vars

(***************************************************************************)
(* The line-record reader on its own: a producer writes lines of every     *)
(* kind to one file and readJsonl reads it.                                *)
(***************************************************************************)
BlankLine == [HistoryEntry(UNDEF, NoTs, NoPath, UNDEF) EXCEPT !.kind = "blank"]

ReaderPool ==
    { BlankLine, HistoryBad, HistoryNull,
      HistoryEntry("one", Num(34), ProjX, "a"),
      HistoryEntry("two", Num(58), ProjY, "b") }

InitReader ==
    /\ history = MissingFile
    /\ projects = NoProjects
    /\ desktop = NoDesktop
    /\ last = NoRun
    /\ prev = NoRun
    /\ file = MissingFile
    /\ items = NotRead
    /\ StorageIdle

WriteLine(line) ==
    /\ Len(file.lines) < MaxFileLines
    /\ file' = TextFile(Append(file.lines, line))
    /\ items' = NotRead
    /\ UNCHANGED <<history, projects, desktop, last, prev,
                 stateFile, insightsFile, run, now, proc>>

ReadFile ==
    /\ items' = [read |-> TRUE, raised |-> readJsonl(file).raised,
                 val |-> readJsonl(file).val]
    /\ UNCHANGED <<history, projects, desktop, last, prev, file,
                 stateFile, insightsFile, run, now, proc>>

NextReader ==
    \/ \E line \in ReaderPool : WriteLine(line)
    \/ ReadFile

SpecReader == InitReader /\ [][NextReader]_vars

(***************************************************************************)
(* The merge of the two sources: a day on which the same session id shows  *)
(* up in two transcripts and in two desktop sessions, and on which         *)
(* prompts of one source and of both sources carry the same instant.       *)
(***************************************************************************)
MaxMergeLines == 4

MergeFirstPrompt == HistoryEntry("first", Num(33), ProjX, "a")

MergeHistoryPool ==
    { HistoryEntry("second", Num(33), ProjY, "a"),
      HistoryEntry("third", Num(32), ProjX, "b") }

MergeMessagePool ==
    { ConversationMessage("user", Iso(33, 0), "a", ProjX, "main", NoUsage,
                          TextContent("first")),
      ConversationMessage("assistant", Iso(34, 0), "a", ProjY, "dev", TokenUsage(7, 3),
                          BlockContent(<<ContentBlock("tool_use", "", "Read")>>)) }

MergeAuditPool ==
    { AuditEntry("user", Iso(33, 0), "a", TextContent("hi")),
      AuditEntry("user", Iso(38, 5), "s1", TextContent("there")),
      AuditEntry("assistant", Iso(34, 0), "s1",
                 BlockContent(<<ContentBlock("tool_use", "", "WebSearch")>>)) }

\* Two project directories, each with a transcript a.jsonl.
MergeProjects ==
    [exists |-> TRUE, isDir |-> TRUE,
     dirs |-> <<ProjectDir(TRUE, <<DirEntry("a", JsonlExt, TextFile(<<>>))>>),
                ProjectDir(TRUE, <<DirEntry("a", JsonlExt, TextFile(<<>>))>>)>>]

\* Two desktop sessions: one whose metadata names the session a, one whose
\* metadata has no session id.
MergeDesktop ==
    [exists |-> TRUE, listable |-> TRUE,
     workspaces |->
        <<WorkspaceDir("dir", TRUE,
            <<UserDir("dir", TRUE,
                <<SessionEntry(TRUE, "dir", TextFile(<<>>), DesktopSessionMeta("Chat", "a")),
                  SessionEntry(TRUE, "dir", TextFile(<<>>), DesktopSessionMeta("Plan", ""))
                >>)>>)>>]

InitMerge ==
    /\ history = TextFile(<<MergeFirstPrompt>>)
    /\ projects = MergeProjects
    /\ desktop = MergeDesktop
    /\ last = NoRun
    /\ prev = NoRun
    /\ file = MissingFile
    /\ items = NotRead
    /\ StorageIdle

MergeAppendHistory(line) ==
    /\ TotalLines < MaxMergeLines
    /\ history' = TextFile(Append(history.lines, line))
    /\ last' = NoRun
    /\ prev' = NoRun
    /\ UNCHANGED <<projects, desktop, file, items,
                 stateFile, insightsFile, run, now, proc>>

MergeAppendTranscript(d, msg) ==
    /\ TotalLines < MaxMergeLines
    /\ projects' = [projects EXCEPT !.dirs[d].entries[1].file.lines = Append(@, msg)]
    /\ last' = NoRun
    /\ prev' = NoRun
    /\ UNCHANGED <<history, desktop, file, items,
                 stateFile, insightsFile, run, now, proc>>

MergeAppendAudit(e, entry) ==
    /\ TotalLines < MaxMergeLines
    /\ desktop' = [desktop EXCEPT
                     !.workspaces[1].users[1].entries[e].audit.lines = Append(@, entry)]
    /\ last' = NoRun
    /\ prev' = NoRun
    /\ UNCHANGED <<history, projects, file, items,
                 stateFile, insightsFile, run, now, proc>>

NextMerge ==
    \/ \E line \in MergeHistoryPool : MergeAppendHistory(line)
    \/ \E d \in 1..2 : \E msg \in MergeMessagePool : MergeAppendTranscript(d, msg)
    \/ \E e \in 1..2 : \E entry \in MergeAuditPool : MergeAppendAudit(e, entry)
    \/ CollectToday(1)

SpecMerge == InitMerge /\ [][NextMerge]_vars

(***************************************************************************)
(* The desktop tree on its own: sessions in several workspaces and user    *)
(* directories, with and without usable metadata, next to entries that are *)
(* no session directories and entries that cannot be read.                 *)
(***************************************************************************)
MaxAuditLines == 2

DesktopAuditPool ==
    { AuditEntry("user", Iso(33, 0), "s1", TextContent("hello")),
      AuditEntry("user", Iso(34, 0), "s2",
                 BlockContent(<<ContentBlock("text", "a", ""),
                                ContentBlock("image", "", ""),
                                ContentBlock("text", "", ""),
                                ContentBlock("text", "b", "")>>)),
      AuditEntry("user", Iso(35, 0), "s1",
                 BlockContent(<<ContentBlock("tool_result", "", "")>>)),
      AuditEntry("user", Iso(36, 0), "", NoContent),
      AuditEntry("assistant", Iso(34, 0), "s1",
                 BlockContent(<<ContentBlock("text", "x", ""),
                                ContentBlock("tool_use", "", "WebSearch")>>)),
      AuditEntry("user", Iso(58, 0), "s1", TextContent("next day")) }

\* What a directory of the tree can hold beside session directories: an entry
\* without the prefix, a file with the prefix, a session directory without an
\* audit file, an entry on which statSync throws.
OtherEntries ==
    { SessionEntry(FALSE, "dir", TextFile(<<>>), MissingMeta),
      SessionEntry(TRUE, "file", MissingFile, MissingMeta),
      SessionEntry(TRUE, "dir", MissingFile, MissingMeta),
      SessionEntry(TRUE, "err", TextFile(<<>>), MissingMeta) }

\* What the root and a workspace can hold beside directories that can be listed:
\* a file, an entry on which statSync throws, a directory on which readdirSync
\* throws.
OtherUsers ==
    { UserDir("file", FALSE, <<>>), UserDir("err", FALSE, <<>>),
      UserDir("dir", FALSE, <<>>) }
OtherWorkspaces ==
    { WorkspaceDir("file", FALSE, <<>>), WorkspaceDir("err", FALSE, <<>>),
      WorkspaceDir("dir", FALSE, <<>>) }

Session(meta) == SessionEntry(TRUE, "dir", TextFile(<<>>), meta)

\* Four sessions in three user directories of two workspaces, with one other
\* entry among the sessions, one among the users and one among the workspaces.
DesktopTree(otherEntry, otherUser, otherWorkspace) ==
    [exists |-> TRUE, listable |-> TRUE,
     workspaces |->
        <<WorkspaceDir("dir", TRUE,
            <<UserDir("dir", TRUE,
                <<Session(DesktopSessionMeta("Chat", "m1")), otherEntry,
                  Session(MissingMeta)>>),
              otherUser,
              UserDir("dir", TRUE, <<Session(BrokenMeta)>>)>>),
          otherWorkspace,
          WorkspaceDir("dir", TRUE,
            <<UserDir("dir", TRUE, <<Session(DesktopSessionMeta("", ""))>>)>>)>>]

\* The tree with no entry that throws, and the trees that differ from it in one
\* entry.
DesktopTrees ==
    LET plainEntry == SessionEntry(FALSE, "dir", TextFile(<<>>), MissingMeta)
        plainUser == UserDir("file", FALSE, <<>>)
        plainWorkspace == WorkspaceDir("file", FALSE, <<>>)
    IN  {DesktopTree(e, plainUser, plainWorkspace) : e \in OtherEntries}
        \cup {DesktopTree(plainEntry, u, plainWorkspace) : u \in OtherUsers}
        \cup {DesktopTree(plainEntry, plainUser, w) : w \in OtherWorkspaces}

InitDesktop ==
    /\ history = MissingFile
    /\ projects = NoProjects
    /\ desktop \in DesktopTrees
    /\ last = NoRun
    /\ prev = NoRun
    /\ file = MissingFile
    /\ items = NotRead
    /\ StorageIdle

DesktopAppendAudit(w, u, e, entry) ==
    /\ AuditLines < MaxAuditLines
    /\ desktop.workspaces[w].users[u].entries[e].audit.exists
    /\ desktop' = [desktop EXCEPT
                     !.workspaces[w].users[u].entries[e].audit.lines = Append(@, entry)]
    /\ last' = NoRun
    /\ prev' = NoRun
    /\ UNCHANGED <<history, projects, file, items,
                 stateFile, insightsFile, run, now, proc>>

DesktopAppendSomeAudit ==
    \E w \in 1..Len(desktop.workspaces) :
        \E u \in 1..Len(desktop.workspaces[w].users) :
            \E e \in 1..Len(desktop.workspaces[w].users[u].entries) :
                \E entry \in DesktopAuditPool : DesktopAppendAudit(w, u, e, entry)

NextDesktop ==
    \/ DesktopAppendSomeAudit
    \/ CollectToday(1)

SpecDesktop == InitDesktop /\ [][NextDesktop]_vars

(***************************************************************************)
(* The coach's own state (src/src/storage.ts) and the default command      *)
(* (handleDefault).  A date is a day number; null is NoDate.               *)
(***************************************************************************)
\* Insights stored, all runs together, and the days the clock goes through.
MaxInsights == 2
MaxDay == 3

NoDate == 0
StatsKept == 30

DEFAULT_STATE ==
    [streak |-> 0, lastRunDate |-> NoDate, recentDimensions |-> <<>>,
     totalInsights |-> 0, helpfulCount |-> 0, notHelpfulCount |-> 0,
     goals |-> <<>>, dailyStats |-> <<>>]

\* A state file: its keys, but for those it lacks.
StateJson(state) == [exists |-> TRUE, json |-> state, lacks |-> {}]

\* A state file of the version without goals and daily stats.
LegacyState ==
    [StateJson([DEFAULT_STATE EXCEPT !.streak = 1, !.lastRunDate = 1,
                                     !.totalInsights = 1,
                                     !.recentDimensions = <<"Tool Leverage">>])
        EXCEPT !.lacks = {"goals", "dailyStats"}]

\* { ...DEFAULT_STATE, ...JSON.parse(raw) }: a key of the file wins, a key the
\* file lacks keeps the default.
loadState ==
    IF ~stateFile.exists THEN DEFAULT_STATE
    ELSE [key \in DOMAIN DEFAULT_STATE |->
            IF key \in stateFile.lacks THEN DEFAULT_STATE[key]
            ELSE stateFile.json[key]]

\* The spread copies the array references of DEFAULT_STATE: two states loaded in
\* one process share the array of a key that the file does not give.
SharesDefault(key) == ~stateFile.exists \/ key \in stateFile.lacks

DailyStat(date, sessions, prompts, tokens, labels, toolCalls) ==
    [date |-> date, sessions |-> sessions, prompts |-> prompts, tokens |-> tokens,
     projects |-> labels, toolCalls |-> toolCalls]

\* recordDailyStat keeping the first 30 entries of a longer array.
recordDailyStatKeepingOldest(stat) ==
    LET state == loadState
        same == {i \in 1..Len(state.dailyStats) : state.dailyStats[i].date = stat.date}
        idx == IF same = {} THEN 0 ELSE CHOOSE i \in same : \A j \in same : i <= j
        written == IF idx > 0 THEN [state.dailyStats EXCEPT ![idx] = stat]
                   ELSE Append(state.dailyStats, stat)
        kept == IF Len(written) > StatsKept THEN SubSeq(written, 1, StatsKept)
                ELSE written
    IN  [saved |-> [state EXCEPT !.dailyStats = kept], array |-> written]

\* recordDailyStat up to its saveState: the state it saves, and the array it
\* pushed to or assigned in, which is not the saved one after a slice.
recordDailyStat(stat) ==
    LET state == loadState
        same == {i \in 1..Len(state.dailyStats) : state.dailyStats[i].date = stat.date}
        idx == IF same = {} THEN 0 ELSE CHOOSE i \in same : \A j \in same : i <= j
        written == IF idx > 0 THEN [state.dailyStats EXCEPT ![idx] = stat]
                   ELSE Append(state.dailyStats, stat)
        kept == IF Len(written) > StatsKept
                THEN SubSeq(written, Len(written) - StatsKept + 1, Len(written))
                ELSE written
    IN  [saved |-> [state EXCEPT !.dailyStats = kept], array |-> written]

\* The zone of the machine: one hour ahead of UTC until the clocks go back, at
\* 01:00 UTC of the day ClockBackDay, and at UTC from then on.
ClockBackDay == 2
OffsetAt(instant) == IF instant < HoursPerDay * ClockBackDay + 1 THEN 1 ELSE 0

\* The instant of a local wall-clock hour; of the two instants of the hour that
\* the clocks repeat, the earlier one.
InstantOfLocal(wall) == IF OffsetAt(wall - 1) = 1 THEN wall - 1 ELSE wall

\* yesterdayStr: new Date(today) is midnight UTC of the day, getDate and
\* setDate read and move the local date, toISOString gives the UTC date.
Yesterday(today) ==
    LET utc == HoursPerDay * today
        local == utc + OffsetAt(utc)
        moved == local - HoursPerDay
    IN  InstantOfLocal(moved) \div HoursPerDay

updateStreak(state, today) ==
    IF state.lastRunDate = today THEN state
    ELSE [state EXCEPT
            !.streak = IF state.lastRunDate # NoDate
                          /\ state.lastRunDate = Yesterday(today) THEN @ + 1 ELSE 1,
            !.lastRunDate = today]

recordDimension(state, dimension) ==
    LET pushed == Append(state.recentDimensions, dimension)
    IN  [state EXCEPT
            !.recentDimensions = IF Len(pushed) > 4
                                 THEN SubSeq(pushed, Len(pushed) - 3, Len(pushed))
                                 ELSE pushed,
            !.totalInsights = @ + 1]

StoredInsight(dimension, date, rating) ==
    [dimension |-> dimension, date |-> date, rating |-> rating]

\* The insights file after updateLastInsightRating.
updateLastInsightRating(insights, rating) ==
    IF insights = <<>> THEN insights
    ELSE [insights EXCEPT ![Len(insights)].rating = rating]

\* What collectToday hands to handleDefault, as far as the daily stat goes.
RunData ==
    { [sessions |-> 0, prompts |-> 0, tokens |-> 0, projects |-> <<>>, toolCalls |-> 0],
      [sessions |-> 1, prompts |-> 2, tokens |-> 70, projects |-> <<"proj-x">>,
       toolCalls |-> 1],
      [sessions |-> 2, prompts |-> 3, tokens |-> 0,
       projects |-> <<"proj-x", "[App] Chat">>, toolCalls |-> 0] }

\* analyze throws, or returns an insight of the dimension the response names.
AnalysisFailed == "<throws>"
Analyses == {AnalysisFailed, "Prompting Craft", "Tool Leverage"}

\* The answer to the rating question; no question is asked without a terminal.
NoTTY == "<no tty>"
Answers == {NoTTY, "y", "n", ""}

InitRun ==
    /\ history = MissingFile
    /\ projects = NoProjects
    /\ desktop = NoDesktop
    /\ last = NoRun
    /\ prev = NoRun
    /\ file = MissingFile
    /\ items = NotRead
    /\ stateFile \in {NoState, LegacyState}
    /\ insightsFile = <<>>
    /\ run = NoCommand
    /\ now = 1
    /\ proc = NoProcess

\* The default command with nothing collected: renderNoData.
DefaultNoData(data) ==
    /\ data.prompts = 0
    /\ run' = [cmd |-> "default", outcome |-> "nodata"]
    /\ UNCHANGED <<stateFile, insightsFile>>

\* The default command when analyze throws: the state saved by recordDailyStat
\* is what stays on disk.
DefaultAnalysisFails(data, stat) ==
    /\ data.prompts > 0
    /\ stateFile' = StateJson(recordDailyStat(stat).saved)
    /\ run' = [cmd |-> "default", outcome |-> "failed", stat |-> stat]
    /\ UNCHANGED insightsFile

\* The default command to its end.  The state loaded before recordDailyStat
\* sees the recorded stat only through an array shared with DEFAULT_STATE.
DefaultDone(data, stat, dimension, answer) ==
    LET loaded == loadState
        recorded == recordDailyStat(stat)
        state == IF SharesDefault("dailyStats")
                 THEN [loaded EXCEPT !.dailyStats = recorded.array] ELSE loaded
        updated == recordDimension(updateStreak(state, now), dimension)
        stored == Append(insightsFile, StoredInsight(dimension, now, "null"))
        rated == IF answer = "y" THEN [updated EXCEPT !.helpfulCount = @ + 1]
                 ELSE IF answer = "n" THEN [updated EXCEPT !.notHelpfulCount = @ + 1]
                 ELSE updated
    IN  /\ data.prompts > 0
        /\ insightsFile' = IF answer = "y" THEN updateLastInsightRating(stored, "helpful")
                           ELSE IF answer = "n"
                           THEN updateLastInsightRating(stored, "not_helpful")
                           ELSE stored
        /\ stateFile' = StateJson(rated)
        /\ run' = [cmd |-> "default", outcome |-> "done", stat |-> stat]

handleDefault(data, analysis, answer) ==
    LET stat == DailyStat(now, data.sessions, data.prompts, data.tokens, data.projects,
                          data.toolCalls)
    IN  /\ \/ DefaultNoData(data)
           \/ analysis = AnalysisFailed /\ DefaultAnalysisFails(data, stat)
           \/ analysis # AnalysisFailed /\ DefaultDone(data, stat, analysis, answer)
        /\ UNCHANGED <<history, projects, desktop, last, prev, file, items, now, proc>>

\* Midnight.
NextDay ==
    /\ now < MaxDay
    /\ now' = now + 1
    /\ UNCHANGED <<history, projects, desktop, last, prev, file, items,
                   stateFile, insightsFile, run, proc>>

\* A run that would store one insight more than the bound.
StoresInsight(data, analysis) == data.prompts > 0 /\ analysis # AnalysisFailed

\* The default command, while the insights stored stay within the bound.
RunDefault(data, analysis, answer) ==
    /\ StoresInsight(data, analysis) => Len(insightsFile) < MaxInsights
    /\ handleDefault(data, analysis, answer)

NextRun ==
    \/ \E data \in RunData : \E analysis \in Analyses : \E answer \in Answers :
          RunDefault(data, analysis, answer)
    \/ NextDay

SpecRun == InitRun /\ [][NextRun]_vars

(***************************************************************************)
(* A specification of recordDailyStat: calls for old and new dates on an   *)
(* empty state and on a state that holds the stats of a month but a day.   *)
(***************************************************************************)
\* The dates past the month that a call may record.
MaxNewDates == 2

MonthState ==
    StateJson([DEFAULT_STATE EXCEPT
                 !.streak = 1, !.lastRunDate = StatsKept - 1, !.totalInsights = 1,
                 !.recentDimensions = <<"Tool Leverage">>,
                 !.dailyStats = [i \in 1..(StatsKept - 1) |->
                                    DailyStat(i, 1, 2, 0, <<"proj-x">>, 0)]])

StatDates == {1, StatsKept - 1} \cup (StatsKept..(StatsKept - 1 + MaxNewDates))
StatPool ==
    {DailyStat(date, 1, 2, tokens, <<"proj-x">>, 1) : date \in StatDates, tokens \in {7, 9}}

InitStats ==
    /\ history = MissingFile
    /\ projects = NoProjects
    /\ desktop = NoDesktop
    /\ last = NoRun
    /\ prev = NoRun
    /\ file = MissingFile
    /\ items = NotRead
    /\ stateFile \in {NoState, MonthState}
    /\ insightsFile = <<>>
    /\ run = NoCommand
    /\ now = 1
    /\ proc = NoProcess

\* One call of recordDailyStat, its saveState included.
RecordDailyStat(stat) ==
    /\ stateFile' = StateJson(recordDailyStat(stat).saved)
    /\ run' = [cmd |-> "recordDailyStat", outcome |-> "done", stat |-> stat]
    /\ UNCHANGED <<history, projects, desktop, last, prev, file, items,
                   insightsFile, now, proc>>

NextStats == \E stat \in StatPool : RecordDailyStat(stat)

SpecStats == InitStats /\ [][NextStats]_vars

(***************************************************************************)
(* Goals (src/src/storage.ts) and a specification of the three goal        *)
(* commands.  A completedDate of NoDate is null.                           *)
(***************************************************************************)
\* Goals stored at a time, and the highest id given.
MaxGoals == 3
MaxGoalId == 4

Goal(id, text, createdDate, completedDate) ==
    [id |-> id, text |-> text, createdDate |-> createdDate,
     completedDate |-> completedDate]

\* Math.max over the ids; 0 stands for the case of no goal.
RECURSIVE MaxId(_)
MaxId(goals) ==
    IF goals = <<>> THEN 0
    ELSE LET rest == MaxId(Tail(goals))
         IN  IF Head(goals).id > rest THEN Head(goals).id ELSE rest

\* addGoal numbering by the count of goals stored.
addGoalByCount(text, today) ==
    LET state == loadState
        goal == Goal(Len(state.goals) + 1, text, today, NoDate)
    IN  [saved |-> [state EXCEPT !.goals = Append(@, goal)], goal |-> goal]

\* addGoal: the state it saves and the goal it returns.
addGoal(text, today) ==
    LET state == loadState
        goal == Goal(MaxId(state.goals) + 1, text, today, NoDate)
    IN  [saved |-> [state EXCEPT !.goals = Append(@, goal)], goal |-> goal]

\* completeGoal: whether it saves, the state it saves, and what it returns.
completeGoal(id, today) ==
    LET state == loadState
        found == {i \in 1..Len(state.goals) : state.goals[i].id = id}
        idx == IF found = {} THEN 0 ELSE CHOOSE i \in found : \A j \in found : i <= j
    IN  IF idx = 0 \/ state.goals[idx].completedDate # NoDate
        THEN [saves |-> FALSE, saved |-> state, result |-> FALSE]
        ELSE [saves |-> TRUE,
              saved |-> [state EXCEPT !.goals[idx].completedDate = today],
              result |-> TRUE]

\* clearCompletedGoals: the state it saves and the number it returns.
clearCompletedGoals ==
    LET state == loadState
        Open(goal) == goal.completedDate = NoDate
        kept == Filter(state.goals, Open)
    IN  [saved |-> [state EXCEPT !.goals = kept],
         result |-> Len(state.goals) - Len(kept)]

\* The text of a goal plays no part in the three functions.
GoalTexts == {"ship"}

InitGoals ==
    /\ history = MissingFile
    /\ projects = NoProjects
    /\ desktop = NoDesktop
    /\ last = NoRun
    /\ prev = NoRun
    /\ file = MissingFile
    /\ items = NotRead
    /\ stateFile \in {NoState, LegacyState}
    /\ insightsFile = <<>>
    /\ run = NoCommand
    /\ now = 1
    /\ proc = NoProcess

\* coach goals set "text"
AddGoal(text) ==
    /\ Len(loadState.goals) < MaxGoals
    /\ MaxId(loadState.goals) < MaxGoalId
    /\ stateFile' = StateJson(addGoal(text, now).saved)
    /\ run' = [cmd |-> "addGoal", outcome |-> "done", id |-> addGoal(text, now).goal.id,
               result |-> TRUE]
    /\ UNCHANGED <<history, projects, desktop, last, prev, file, items,
                   insightsFile, now, proc>>

\* coach goals done <id>
CompleteGoal(id) ==
    /\ stateFile' = IF completeGoal(id, now).saves
                    THEN StateJson(completeGoal(id, now).saved) ELSE stateFile
    /\ run' = [cmd |-> "completeGoal", outcome |-> "done", id |-> id,
               result |-> completeGoal(id, now).result]
    /\ UNCHANGED <<history, projects, desktop, last, prev, file, items,
                   insightsFile, now, proc>>

\* coach goals clear
ClearCompletedGoals ==
    /\ stateFile' = StateJson(clearCompletedGoals.saved)
    /\ run' = [cmd |-> "clearCompletedGoals", outcome |-> "done", id |-> 0,
               result |-> clearCompletedGoals.result > 0]
    /\ UNCHANGED <<history, projects, desktop, last, prev, file, items,
                   insightsFile, now, proc>>

NextGoals ==
    \/ \E text \in GoalTexts : AddGoal(text)
    \/ \E id \in 0..(MaxGoalId + 1) : CompleteGoal(id)
    \/ ClearCompletedGoals
    \/ NextDay

SpecGoals == InitGoals /\ [][NextGoals]_vars

(***************************************************************************)
(* A specification of default runs and `coach rate` commands of one day.   *)
(***************************************************************************)
\* Ratings given by `coach rate`.
MaxRatings == 3

RateValues == {"y", "yes", "n", "no", ""}

\* coach rate <value>
handleRate(value) ==
    LET state == loadState
    IN  /\ IF value \in {"y", "yes"}
           THEN /\ state.helpfulCount + state.notHelpfulCount < MaxRatings
                /\ insightsFile' = updateLastInsightRating(insightsFile, "helpful")
                /\ stateFile' = StateJson([state EXCEPT !.helpfulCount = @ + 1])
                /\ run' = [cmd |-> "rate", outcome |-> "done"]
           ELSE IF value \in {"n", "no"}
           THEN /\ state.helpfulCount + state.notHelpfulCount < MaxRatings
                /\ insightsFile' = updateLastInsightRating(insightsFile, "not_helpful")
                /\ stateFile' = StateJson([state EXCEPT !.notHelpfulCount = @ + 1])
                /\ run' = [cmd |-> "rate", outcome |-> "done"]
           ELSE /\ run' = [cmd |-> "rate", outcome |-> "usage"]
                /\ UNCHANGED <<stateFile, insightsFile>>
        /\ UNCHANGED <<history, projects, desktop, last, prev, file, items, now, proc>>

NextRate ==
    \/ \E data \in RunData : \E analysis \in Analyses : \E answer \in Answers :
          RunDefault(data, analysis, answer)
    \/ \E value \in RateValues : handleRate(value)

SpecRate == InitRun /\ [][NextRate]_vars

(***************************************************************************)
(* runClaude (src/src/analyzer.ts): the claude child process, the handlers *)
(* of its events and the promise.  A text is a sequence of characters.     *)
(* spawn queues the error of a failed spawn before it returns, so that     *)
(* error is the first event of a child whose executable is missing; the    *)
(* close event comes after the last data of stdout and stderr, with the    *)
(* exit code, null for a signal, or the negative errno of a failed spawn.  *)
(***************************************************************************)
\* Events delivered to the handlers of one call before the close event.
MaxEvents == 3

IsSpace(c) == c \in {" ", "\n"}
RECURSIVE trimStart(_)
trimStart(text) ==
    IF text # <<>> /\ IsSpace(Head(text)) THEN trimStart(Tail(text)) ELSE text
RECURSIVE trimEnd(_)
trimEnd(text) ==
    IF text # <<>> /\ IsSpace(text[Len(text)])
    THEN trimEnd(SubSeq(text, 1, Len(text) - 1))
    ELSE text
trim(text) == trimEnd(trimStart(text))

\* A promise, and resolve and reject, which settle a pending promise only.
Pending == [state |-> "pending"]
resolve(promise, value) ==
    IF promise.state = "pending" THEN [state |-> "resolved", value |-> value]
    ELSE promise
reject(promise, err) ==
    IF promise.state = "pending" THEN [state |-> "rejected", err |-> err]
    ELSE promise

\* The errors the promise is rejected with.
StreamError(emitter, code) == [k |-> emitter, code |-> code]
NotFoundError == [k |-> "message", text |-> "claude CLI not found"]
StderrError(text) == [k |-> "stderr", text |-> text]
ExitError(code) == [k |-> "exited with code", code |-> code]

\* The call up to its return: spawn, the three variables, the handlers
\* registered, the prompt written to stdin.  The fields from closed on are not
\* the program's: they keep what the child has done.
Spawned(missing) ==
    [spawned |-> TRUE, stdout |-> <<>>, stderr |-> <<>>, rejected |-> FALSE,
     promise |-> Pending,
     missing |-> missing, closed |-> FALSE, code |-> "none", events |-> 0,
     failedEarly |-> FALSE, epipe |-> FALSE, stdinDone |-> FALSE, procDone |-> FALSE]

fail(p, err) ==
    IF ~p.rejected THEN [p EXCEPT !.rejected = TRUE, !.promise = reject(@, err)]
    ELSE p

onStdoutData(p, chunk) == [p EXCEPT !.stdout = @ \o chunk]
onStderrData(p, chunk) == [p EXCEPT !.stderr = @ \o chunk]

\* The handler of the stdin error that rejects for EPIPE as for any other code.
onStdinErrorAnyCode(p, code) == fail(p, StreamError("stdin", code))

onStdinError(p, code) ==
    IF code # "EPIPE" THEN fail(p, StreamError("stdin", code)) ELSE p

onProcError(p, code) ==
    IF code = "ENOENT" THEN fail(p, NotFoundError)
    ELSE fail(p, StreamError("process", code))

onClose(p, code) ==
    IF p.rejected THEN p
    ELSE IF code = "0" THEN [p EXCEPT !.promise = resolve(@, trim(p.stdout))]
    ELSE fail(p, IF trim(p.stderr) # <<>> THEN StderrError(trim(p.stderr))
                 ELSE ExitError(code))

StdoutChunks == {<<" ">>, <<"o", "k">>, <<"\n">>}
StderrChunks == {<<"n", "o">>, <<"\n">>}
StdinCodes == {"EPIPE", "ECONNRESET"}
ProcCodes == {"EPERM"}
\* Exit codes, written as the template string of the message writes them.
ExitCodes == {"0", "1", "null"}
SpawnErrno == "-2"

InitClaude ==
    /\ history = MissingFile
    /\ projects = NoProjects
    /\ desktop = NoDesktop
    /\ last = NoRun
    /\ prev = NoRun
    /\ file = MissingFile
    /\ items = NotRead
    /\ StorageIdle

OnlyProc == UNCHANGED <<history, projects, desktop, last, prev, file, items,
                        stateFile, insightsFile, run, now>>

\* runClaude(prompt) up to the return of the promise.
RunClaude(missing) ==
    /\ ~proc.spawned
    /\ proc' = Spawned(missing)
    /\ OnlyProc

\* A chunk of the child's stdout or stderr.
StdoutData(chunk) ==
    /\ proc.spawned /\ ~proc.missing /\ ~proc.closed
    /\ proc.events < MaxEvents
    /\ proc' = [onStdoutData(proc, chunk) EXCEPT !.events = @ + 1]
    /\ OnlyProc
StderrData(chunk) ==
    /\ proc.spawned /\ ~proc.missing /\ ~proc.closed
    /\ proc.events < MaxEvents
    /\ proc' = [onStderrData(proc, chunk) EXCEPT !.events = @ + 1]
    /\ OnlyProc

\* The error of the stdin stream, before or after the close event; for a
\* missing executable after the error of the spawn.
StdinError(code) ==
    /\ proc.spawned /\ ~proc.stdinDone
    /\ proc.missing => proc.procDone
    /\ proc' = [onStdinError(proc, code) EXCEPT
                  !.stdinDone = TRUE,
                  !.epipe = code = "EPIPE",
                  !.failedEarly = @ \/ (code # "EPIPE" /\ ~proc.closed)]
    /\ OnlyProc

\* The error event of the child process.
ProcError(code) ==
    /\ proc.spawned /\ ~proc.procDone /\ ~proc.closed
    /\ proc.missing <=> code = "ENOENT"
    /\ proc' = [onProcError(proc, code) EXCEPT !.procDone = TRUE, !.failedEarly = TRUE]
    /\ OnlyProc

\* The close event.
Close(code) ==
    /\ proc.spawned /\ ~proc.closed
    /\ IF proc.missing THEN proc.procDone /\ code = SpawnErrno
       ELSE code \in ExitCodes
    /\ proc' = [onClose(proc, code) EXCEPT !.closed = TRUE, !.code = code]
    /\ OnlyProc

NextClaude ==
    \/ \E missing \in BOOLEAN : RunClaude(missing)
    \/ \E chunk \in StdoutChunks : StdoutData(chunk)
    \/ \E chunk \in StderrChunks : StderrData(chunk)
    \/ \E code \in StdinCodes : StdinError(code)
    \/ \E code \in ProcCodes \cup {"ENOENT"} : ProcError(code)
    \/ \E code \in ExitCodes \cup {SpawnErrno} : Close(code)

SpecClaude == InitClaude /\ [][NextClaude]_vars

(***************************************************************************)
(* The choice of the lens (pickDimension, src/src/analyzer.ts) and a       *)
(* specification of default runs whose response names the lens picked.     *)
(* Scores are counted in quarters: a base score is 0 or 3, the boosts are  *)
(* 8, 4 and 6.                                                             *)
(***************************************************************************)
DIMENSIONS ==
    <<"Prompting Craft", "Workflow Efficiency", "Architecture Thinking",
      "Learning Patterns", "Focus & Deep Work", "Communication Style",
      "Tool Leverage", "Problem Decomposition", "Cost Awareness">>
DimensionSet == {DIMENSIONS[i] : i \in 1..Len(DIMENSIONS)}

Includes(seq, x) == \E i \in 1..Len(seq) : seq[i] = x

\* scores.set(dim, (scores.get(dim) ?? 0) + boost) on a Map kept as the
\* sequence of its entries in insertion order.
Boost(scores, dim, boost) ==
    IF \E i \in 1..Len(scores) : scores[i].dim = dim
    THEN [i \in 1..Len(scores) |->
            IF scores[i].dim = dim
            THEN [scores[i] EXCEPT !.score = @ + boost] ELSE scores[i]]
    ELSE Append(scores, [dim |-> dim, score |-> boost])

\* The boosts the data of the day call for, in the order of the code; the data
\* are the counts of the snapshot, as in RunData.
BoostsOf(data) ==
    LET prompts == data.prompts
        sessions == data.sessions
        many == IF sessions > 0 THEN prompts > 8 * sessions ELSE prompts > 8
    IN  (IF many THEN <<[dim |-> "Prompting Craft", score |-> 8],
                        [dim |-> "Workflow Efficiency", score |-> 4]>> ELSE <<>>)
        \o (IF Len(data.projects) > 2
            THEN <<[dim |-> "Focus & Deep Work", score |-> 8]>> ELSE <<>>)
        \o (IF data.toolCalls > 20
            THEN <<[dim |-> "Tool Leverage", score |-> 6]>> ELSE <<>>)
        \o (IF sessions = 1 /\ prompts > 5
            THEN <<[dim |-> "Problem Decomposition", score |-> 6]>> ELSE <<>>)
        \o (IF data.tokens > 100000
            THEN <<[dim |-> "Cost Awareness", score |-> 6]>> ELSE <<>>)

\* The pool and the scores before the final loop.
PoolOf(recentDimensions) ==
    LET Fresh(d) == ~Includes(recentDimensions, d)
        available == Filter(DIMENSIONS, Fresh)
    IN  IF Len(available) > 0 THEN available ELSE DIMENSIONS
ScoresOf(pool, data, base) ==
    LET Entry(d) == [dim |-> d, score |-> base[d]]
        Set(scores, b) == Boost(scores, b.dim, b.score)
    IN  Reduce(BoostsOf(data), Set, Map(pool, Entry))

\* The final loop: the first entry of the highest score, started from pool[0]
\* and the score -1.
BestStep(best, entry) ==
    IF entry.score > best.score THEN entry ELSE best

\* pickDimension with a final loop that does not ask whether the entry is in the pool.
pickDimensionOfAllScores(recentDimensions, data, base) ==
    LET pool == PoolOf(recentDimensions)
    IN  Reduce(ScoresOf(pool, data, base), BestStep,
               [dim |-> pool[1], score |-> -1]).dim

pickDimension(recentDimensions, data, base) ==
    LET pool == PoolOf(recentDimensions)
        InPool(entry) == Includes(pool, entry.dim)
    IN  Reduce(Filter(ScoresOf(pool, data, base), InPool), BestStep,
               [dim |-> pool[1], score |-> -1]).dim

\* Default runs recorded in one state file, all on one day.
MaxLensRuns == 6

\* A quiet day, and a day that calls for every boost.
LensData ==
    { [sessions |-> 2, prompts |-> 3, tokens |-> 70, projects |-> <<"proj-x">>,
       toolCalls |-> 1],
      [sessions |-> 1, prompts |-> 9, tokens |-> 100001,
       projects |-> <<"proj-x", "proj-y", "[App] Chat">>, toolCalls |-> 21] }

\* Math.random() for each dimension: low for all, or high for one of them.
LensBases ==
    {[d \in DimensionSet |-> IF d = high THEN 3 ELSE 0] :
        high \in DimensionSet \cup {"none"}}

InitLens ==
    /\ history = MissingFile
    /\ projects = NoProjects
    /\ desktop = NoDesktop
    /\ last = NoRun
    /\ prev = NoRun
    /\ file = MissingFile
    /\ items = NotRead
    /\ StorageIdle

\* A default run whose analysis fails, or whose response names the dimension
\* that pickDimension chose for the prompt.
LensRun(data, base, fails) ==
    /\ Len(insightsFile) < MaxLensRuns
    /\ handleDefault(data,
                     IF fails THEN AnalysisFailed
                     ELSE pickDimension(loadState.recentDimensions, data, base),
                     NoTTY)

\* The base scores of the runs: low for all, or high for the first, a middle
\* or the last dimension.
LensRunBases ==
    {base \in LensBases :
        \A d \in DimensionSet :
            base[d] = 3 => d \in {DIMENSIONS[1], DIMENSIONS[5], DIMENSIONS[9]}}

NextLens ==
    \E data \in LensData : \E base \in LensRunBases : \E fails \in BOOLEAN :
        LensRun(data, base, fails)

SpecLens == InitLens /\ [][NextLens]_vars

(***************************************************************************)
(* A specification of the transcript fold: one history prompt of the day   *)
(* for session a, one of another day for session c, transcripts a.jsonl in *)
(* two project directories and c.jsonl in the first, and records of every  *)
(* shape the loop of parseCodeSessionFile tells apart.                     *)
(***************************************************************************)
MaxTranscriptLines == 3

TranscriptHistory ==
    <<HistoryEntry("first", Num(33), ProjX, "a"),
      HistoryEntry("later", Num(58), ProjY, "c")>>

TranscriptPool ==
    { \* a user record that carries usage counters and a tool block
      ConversationMessage("user", Iso(33, 0), "a", ProjX, "main", TokenUsage(9, 4),
                          BlockContent(<<ContentBlock("tool_use", "", "Bash")>>)),
      \* an assistant record with usage, two named tool blocks and an unnamed one
      ConversationMessage("assistant", Iso(34, 0), "a2", ProjY, "dev", TokenUsage(50, 20),
                          BlockContent(<<ContentBlock("text", "ok", ""),
                                         ContentBlock("tool_use", "", "Read"),
                                         ContentBlock("tool_use", "", ""),
                                         ContentBlock("tool_use", "", "Read")>>)),
      \* an assistant record without usage, session id, cwd and branch
      ConversationMessage("assistant", Iso(35, 0), "", NoPath, UNDEF, NoUsage,
                          TextContent("done")),
      \* a record of another type that carries the three identity fields
      ConversationMessage("system", Iso(32, 0), "s", ProjX, "fix", TokenUsage(2, 2),
                          NoContent),
      \* the three kinds of record the loop skips
      ConversationMessage("file-history-snapshot", Iso(36, 0), "z", ProjY, "tmp",
                          TokenUsage(1, 1), NoContent),
      ConversationMessage("user", NoTs, "z", ProjY, "tmp", NoUsage, TextContent("undated")),
      ConversationMessage("assistant", Iso(25, 5), "z", ProjY, "tmp", TokenUsage(7, 3),
                          BlockContent(<<ContentBlock("tool_use", "", "Grep")>>)) }

TranscriptProjects ==
    [exists |-> TRUE, isDir |-> TRUE,
     dirs |-> <<ProjectDir(TRUE, <<DirEntry("a", JsonlExt, TextFile(<<>>)),
                                   DirEntry("c", JsonlExt, TextFile(<<>>))>>),
                ProjectDir(TRUE, <<DirEntry("a", JsonlExt, TextFile(<<>>))>>)>>]

InitTranscript ==
    /\ history = TextFile(TranscriptHistory)
    /\ projects = TranscriptProjects
    /\ desktop = NoDesktop
    /\ last = NoRun
    /\ prev = NoRun
    /\ file = MissingFile
    /\ items = NotRead
    /\ StorageIdle

TranscriptAppend(d, e, msg) ==
    /\ TranscriptLines < MaxTranscriptLines
    /\ projects' = [projects EXCEPT !.dirs[d].entries[e].file.lines = Append(@, msg)]
    /\ last' = NoRun
    /\ prev' = NoRun
    /\ UNCHANGED <<history, desktop, file, items,
                 stateFile, insightsFile, run, now, proc>>

NextTranscript ==
    \/ \E d \in 1..Len(projects.dirs) : \E e \in 1..Len(projects.dirs[d].entries) :
          \E msg \in TranscriptPool : TranscriptAppend(d, e, msg)
    \/ CollectToday(1)

SpecTranscript == InitTranscript /\ [][NextTranscript]_vars

(***************************************************************************)
(* Properties of the collector.                                            *)
(***************************************************************************)
\* The latest run returned a snapshot.
Returned == last.ran /\ ~last.raised

RECURSIVE SumTo(_, _, _)
SumTo(seq, F(_), n) == IF n = 0 THEN 0 ELSE F(seq[n]) + SumTo(seq, F, n - 1)
SumOf(seq, F(_)) == SumTo(seq, F, Len(seq))

IsAppPrompt(p) == p.project = AppLabel("Chat")
IsMergeAppPrompt(p) == p.project \in {AppLabel("Chat"), AppLabel("Plan")}

\* C1: the prompts of every snapshot returned are in non-decreasing order of the
\* instants of their timestamps, prompts of both sources together.
C1_PromptsSorted ==
    Returned =>
        \A i \in 1..(Len(last.prompts) - 1) :
            Instant(last.prompts[i].timestamp) <= Instant(last.prompts[i + 1].timestamp)

\* A snapshot in which a desktop prompt was moved in front of a history prompt.
C1_Witness ==
    /\ Returned
    /\ \E i, j \in 1..Len(last.prompts) :
          /\ i < j
          /\ IsAppPrompt(last.prompts[i])
          /\ ~IsAppPrompt(last.prompts[j])
          /\ Instant(last.prompts[i].timestamp) < Instant(last.prompts[j].timestamp)

\* C2: in every snapshot returned the three rollups are the sums over the returned
\* sessions: input plus output tokens, message counts, tool call counts.
C2_RollupsAreSums ==
    Returned =>
        LET Tokens(sess) == sess.inputTokens + sess.outputTokens
            Messages(sess) == sess.messageCount
            ToolCalls(sess) == sess.toolCallCount
        IN  /\ last.totalTokens = SumOf(last.sessions, Tokens)
            /\ last.totalMessages = SumOf(last.sessions, Messages)
            /\ last.totalToolCalls = SumOf(last.sessions, ToolCalls)

\* A snapshot with a summary of each source, output tokens and tool calls.
C2_Witness ==
    /\ Returned
    /\ \E i, j \in 1..Len(last.sessions) :
          /\ last.sessions[i].source = "claude-code"
          /\ last.sessions[i].outputTokens > 0
          /\ last.sessions[j].source = "claude-app"
    /\ last.totalToolCalls > 0
    /\ last.totalMessages > 1

\* C3: collectToday never raises, whatever the logs hold.
C3_NeverRaises == last.ran => ~last.raised

\* C4: readJsonl returns exactly the records of the lines that parse, in file
\* order, wherever the other lines are; nothing for a missing or empty file.
C4_ReaderSkipsBadLines ==
    items.read =>
        /\ ~items.raised
        /\ items.val = SelectSeq(file.lines, Parses)
        /\ (~file.exists \/ file.lines = <<>>) => items.val = <<>>

\* A file read with an unparseable line between two records.
C4_Witness ==
    /\ items.read
    /\ \E i, j, k \in 1..Len(file.lines) :
          /\ i < j /\ j < k
          /\ file.lines[i].kind = "rec"
          /\ file.lines[j].kind = "bad"
          /\ file.lines[k].kind = "rec"
    /\ Len(items.val) >= 2

\* The files of the two trees, and the records of a file that fall on a day.
AllTranscripts ==
    LET FileOf(entry) == entry.file
        OfDir(dir) == Map(dir.entries, FileOf)
    IN  Concat(Map(projects.dirs, OfDir))
AllAudits ==
    LET AuditOf(entry) == entry.audit
        OfUser(user) == Map(user.entries, AuditOf)
        OfWorkspace(workspace) == Concat(Map(workspace.users, OfUser))
    IN  Concat(Map(desktop.workspaces, OfWorkspace))

MessageInDay(msg, day) == msg.kind = "rec" /\ isSameDay(msg.timestamp, day)
EntryInDay(entry, day) == entry.kind = "rec" /\ isSameDay(entry.audit_timestamp, day)
HistoryInDay(entry, day) == entry.kind = "rec" /\ isSameDay(entry.timestamp, day)

HasMessageInDay(f, day) == \E i \in 1..Len(f.lines) : MessageInDay(f.lines[i], day)
HasEntryInDay(f, day) == \E i \in 1..Len(f.lines) : EntryInDay(f.lines[i], day)

Count(seq, P(_)) == Len(Filter(seq, P))
IsCodeSession(sess) == sess.source = "claude-code"
IsAppSession(sess) == sess.source = "claude-app"

\* C5: a transcript or audit file with no record on the target day yields no
\* summary and no prompt: its parse returns nothing, the snapshot holds no more
\* summaries of a source than that source has files with a record on the day, no
\* desktop prompt when no audit file has one, and no summary without a start time
\* on the day.
C5_OutOfDayFilesContributeNothing ==
    last.ran =>
        /\ \A i \in 1..Len(AllTranscripts) :
              ~HasMessageInDay(AllTranscripts[i], last.date) =>
                  LET r == parseCodeSessionFile(AllTranscripts[i], last.date)
                  IN  r.raised \/ r.val = <<>>
        /\ \A i \in 1..Len(AllAudits) :
              ~HasEntryInDay(AllAudits[i], last.date) =>
                  LET r == parseDesktopSession(AllAudits[i], MissingMeta, last.date)
                  IN  r.raised \/ (r.val.prompts = <<>> /\ r.val.session = <<>>)
        /\ Returned =>
              LET TranscriptInDay(f) == HasMessageInDay(f, last.date)
                  AuditInDay(f) == HasEntryInDay(f, last.date)
              IN  /\ Count(last.sessions, IsCodeSession)
                        <= Count(AllTranscripts, TranscriptInDay)
                  /\ Count(last.sessions, IsAppSession) <= Count(AllAudits, AuditInDay)
                  /\ Count(AllAudits, AuditInDay) = 0
                        => Count(last.prompts, IsAppPrompt) = 0
                  /\ \A j \in 1..Len(last.sessions) :
                        isSameDay(last.sessions[j].startTime, last.date)

\* A snapshot taken when the transcript of a session of the day and the audit
\* file both hold records, all of another day.
C5_Witness ==
    /\ Returned
    /\ last.prompts # <<>>
    /\ last.sessions = <<>>
    /\ \E d \in 1..Len(projects.dirs) : \E e \in 1..Len(projects.dirs[d].entries) :
          LET entry == projects.dirs[d].entries[e]
          IN  /\ \E i \in 1..Len(last.prompts) : last.prompts[i].sessionId = entry.stem
              /\ \E i \in 1..Len(entry.file.lines) : entry.file.lines[i].kind = "rec"
              /\ ~HasMessageInDay(entry.file, last.date)
    /\ \E i \in 1..Len(AllAudits) :
          /\ \E j \in 1..Len(AllAudits[i].lines) : AllAudits[i].lines[j].kind = "rec"
          /\ ~HasEntryInDay(AllAudits[i], last.date)

\* C6: every summary in a snapshot counts at least one user or assistant
\* message, and a source has no more summaries than it has files with a user or
\* assistant record on the day.
C6_SummariesHaveMessages ==
    Returned =>
        LET TalkInTranscript(f) ==
                \E i \in 1..Len(f.lines) :
                    /\ MessageInDay(f.lines[i], last.date)
                    /\ f.lines[i].type \in {"user", "assistant"}
            TalkInAudit(f) ==
                \E i \in 1..Len(f.lines) :
                    /\ EntryInDay(f.lines[i], last.date)
                    /\ f.lines[i].type \in {"user", "assistant"}
        IN  /\ \A j \in 1..Len(last.sessions) :
                  last.sessions[j].userMessageCount
                      + last.sessions[j].assistantMessageCount >= 1
            /\ Count(last.sessions, IsCodeSession) <= Count(AllTranscripts, TalkInTranscript)
            /\ Count(last.sessions, IsAppSession) <= Count(AllAudits, TalkInAudit)

\* A snapshot taken when the audit file's only records of the day are tool records.
C6_Witness ==
    /\ Returned
    /\ Count(last.sessions, IsAppSession) = 0
    /\ \E i \in 1..Len(AllAudits) :
          /\ \E j \in 1..Len(AllAudits[i].lines) :
                /\ EntryInDay(AllAudits[i].lines[j], last.date)
                /\ AllAudits[i].lines[j].type = "tool"
          /\ \A j \in 1..Len(AllAudits[i].lines) :
                EntryInDay(AllAudits[i].lines[j], last.date)
                    => AllAudits[i].lines[j].type = "tool"

\* C7: the start of every summary is not later than its end, as instants.
C7_StartNotAfterEnd ==
    Returned =>
        \A j \in 1..Len(last.sessions) :
            Instant(last.sessions[j].startTime) <= Instant(last.sessions[j].endTime)

RaiseCause ==
    LET NullIn(f) == \E i \in 1..Len(f.lines) : IsNull(f.lines[i])
        Broken(f) == (f.exists /\ ~f.readable) \/ NullIn(f)
    IN  \/ Broken(history)
        \/ \E i \in 1..Len(history.lines) :
              HistoryInDay(history.lines[i], last.date)
                  /\ ~history.lines[i].project.present
        \/ projects.exists /\ ~projects.isDir
        \/ \E i \in 1..Len(AllTranscripts) : Broken(AllTranscripts[i])
        \/ \E i \in 1..Len(AllAudits) : Broken(AllAudits[i])

\* C9: every prompt of a snapshot has a timestamp on the target day in the local
\* timezone; there are no more prompts than history and audit records on that
\* day, so a record with a missing, malformed or other-day timestamp yields
\* none; and no exception of a run is due to such a record.
C9_PromptsAreOfTheDay ==
    /\ Returned =>
          LET OnDay(entry) == HistoryInDay(entry, last.date)
              AuditOnDay(f) ==
                  LET OnDayEntry(entry) == EntryInDay(entry, last.date)
                  IN  Count(f.lines, OnDayEntry)
          IN  /\ \A i \in 1..Len(last.prompts) :
                    toLocalDateStr(last.prompts[i].timestamp) = last.date
              /\ Len(last.prompts)
                    <= Count(history.lines, OnDay) + SumOf(AllAudits, AuditOnDay)
    /\ (last.ran /\ last.raised) => RaiseCause

\* A snapshot with a prompt, taken when the history log also holds an entry
\* without a timestamp and one with a malformed or other-day timestamp.
C9_Witness ==
    /\ Returned
    /\ last.prompts # <<>>
    /\ \E i, j \in 1..Len(history.lines) :
          /\ history.lines[i].kind = "rec" /\ history.lines[i].timestamp = NoTs
          /\ history.lines[j].kind = "rec" /\ history.lines[j].timestamp # NoTs
          /\ ~HistoryInDay(history.lines[j], last.date)

\* C10 as claimed, for the runs that return: with no transcript directory the
\* primary-source collector returns no session and no prompt.
C10_AbsentDirYieldsNothing ==
    (Returned /\ ~projects.exists) =>
        LET code == collectCodeSessions(last.date)
        IN  /\ ~code.raised
            /\ code.val.sessions = <<>>
            /\ code.val.prompts = <<>>

\* C10 as amended: with no transcript directory the walk for transcripts finds
\* nothing and throws nothing, so the primary-source collector throws only where
\* reading the history log does and otherwise returns no session, with the day's
\* history prompts; the snapshot then holds no primary summary.
C10_AbsentDirYieldsNoSessions ==
    (last.ran /\ ~projects.exists) =>
        LET code == collectCodeSessions(last.date)
            prompts == collectCodePrompts(last.date)
            walk == findCodeSessionFiles({"a", "b"})
        IN  /\ walk = Ok(<<>>)
            /\ code.raised <=> prompts.raised
            /\ ~code.raised => code.val = [prompts |-> prompts.val, sessions |-> <<>>]
            /\ Returned =>
                  /\ Count(last.sessions, IsCodeSession) = 0
                  /\ Len(last.prompts) >= Len(prompts.val)

\* A snapshot taken with no transcript directory that holds a history prompt.
C10_Witness ==
    /\ Returned
    /\ ~projects.exists
    /\ \E i \in 1..Len(last.prompts) : ~IsAppPrompt(last.prompts[i])
    /\ last.sessions = <<>>

\* The session ids of the day's history prompts, and those with a transcript
\* file <id>.jsonl in some project directory that can be listed.
ReferencedIds(day) ==
    {history.lines[i].sessionId :
        i \in {j \in 1..Len(history.lines) : HistoryInDay(history.lines[j], day)}}
HasTranscript(id) ==
    /\ projects.exists
    /\ \E d \in 1..Len(projects.dirs) :
          /\ projects.dirs[d].listable
          /\ \E e \in 1..Len(projects.dirs[d].entries) :
                /\ projects.dirs[d].entries[e].stem = id
                /\ projects.dirs[d].entries[e].ext = JsonlExt

\* C11: a session id of the day's history prompts without a transcript file is no
\* error and gives no summary, and its prompts are all in the snapshot: the walk
\* returns the files of the other ids only, the primary collector throws only
\* where reading the history or parsing a file found does, and the snapshot has
\* one history prompt per in-day history entry of the session.
C11_UnmatchedSessionsAreAbsent ==
    LET ids == ReferencedIds(last.date)
        unmatched == {id \in ids : ~HasTranscript(id)}
        prompts == collectCodePrompts(last.date)
        walk == findCodeSessionFiles(ids)
        code == collectCodeSessions(last.date)
        Parse(f) == parseCodeSessionFile(f, last.date)
    IN  (last.ran /\ ~prompts.raised /\ (projects.exists => projects.isDir)) =>
            /\ ~walk.raised
            /\ walk = findCodeSessionFiles(ids \ unmatched)
            /\ findCodeSessionFiles(unmatched) = Ok(<<>>)
            /\ code.raised <=> AnyRaised(Map(walk.val, Parse))
            /\ ~code.raised =>
                  /\ Len(code.val.sessions) <= Len(walk.val)
                  /\ code.val.prompts = prompts.val
            /\ Returned =>
                  /\ Count(last.sessions, IsCodeSession) <= Len(walk.val)
                  /\ \A id \in unmatched :
                        LET OfId(p) == ~IsAppPrompt(p) /\ p.sessionId = id
                            EntryOfId(entry) ==
                                HistoryInDay(entry, last.date) /\ entry.sessionId = id
                        IN  Count(last.prompts, OfId) = Count(history.lines, EntryOfId)

\* A snapshot with a prompt of a session that has no transcript file, next to
\* the summary of a session that has one.
C11_Witness ==
    /\ Returned
    /\ \E id \in ReferencedIds(last.date) :
          /\ ~HasTranscript(id)
          /\ \E i \in 1..Len(last.prompts) : last.prompts[i].sessionId = id
    /\ \E id \in ReferencedIds(last.date) : HasTranscript(id)
    /\ Count(last.sessions, IsCodeSession) = 1

\* The transcripts named after a session id of the day's history prompts, in the
\* order of the walk, and the files of either source that hold a user or
\* assistant record of the day.
MatchedTranscripts(day) ==
    LET Of(dir) == ProjectMatches(dir, ReferencedIds(day))
    IN  Concat(Map(projects.dirs, Of))
TranscriptTalks(f, day) ==
    \E i \in 1..Len(f.lines) :
        MessageInDay(f.lines[i], day) /\ f.lines[i].type \in {"user", "assistant"}
AuditTalks(f, day) ==
    \E i \in 1..Len(f.lines) :
        EntryInDay(f.lines[i], day) /\ f.lines[i].type \in {"user", "assistant"}

\* C12: the sessions of a snapshot are the summaries of the transcripts, in the
\* order the transcripts are found, followed by the summaries of the audit
\* files, in the order these are found; one summary for each file with a user or
\* assistant record of the day, also where two files give the same session id.
C12_SessionsConcatenated ==
    Returned =>
        LET ParseCode(f) == parseCodeSessionFile(f, last.date).val
            ParseApp(a) ==
                parseDesktopSession(a.auditPath, a.metaPath, last.date).val.session
            TalksCode(f) == TranscriptTalks(f, last.date)
            TalksApp(a) == AuditTalks(a.auditPath, last.date)
            codeSessions == Concat(Map(Filter(MatchedTranscripts(last.date), TalksCode),
                                       ParseCode))
            appSessions == Concat(Map(Filter(findDesktopAuditFiles, TalksApp), ParseApp))
        IN  /\ last.sessions = codeSessions \o appSessions
            /\ Len(last.sessions)
                  = Count(MatchedTranscripts(last.date), TalksCode)
                      + Count(findDesktopAuditFiles, TalksApp)
            /\ \A i, j \in 1..Len(last.sessions) :
                  (IsCodeSession(last.sessions[i]) /\ IsAppSession(last.sessions[j]))
                      => i < j

\* A snapshot with three summaries of one session id: two of transcripts and one
\* of a desktop session.
C12_Witness ==
    /\ Returned
    /\ Len(last.sessions) = 3
    /\ \A i \in 1..3 : last.sessions[i].sessionId = "a"
    /\ IsCodeSession(last.sessions[2])
    /\ IsAppSession(last.sessions[3])

\* The prompts of the day before the sort: those of the history log in log
\* order, then those of the audit files in the order of the walk.
PromptsBeforeSort(day) ==
    collectCodePrompts(day).val \o collectDesktopSessions(day).val.prompts

\* C13: the prompts of a snapshot that carry one instant are in the order they
\* had before the sort: history prompts first, in log order, then desktop
\* prompts, in the order they were read.
C13_TiesKeepInputOrder ==
    Returned =>
        \A t \in {Instant(last.prompts[i].timestamp) : i \in 1..Len(last.prompts)} :
            LET AtT(p) == Instant(p.timestamp) = t
                tied == Filter(last.prompts, AtT)
            IN  /\ tied = Filter(PromptsBeforeSort(last.date), AtT)
                /\ \A i, j \in 1..Len(tied) :
                      (~IsMergeAppPrompt(tied[i]) /\ IsMergeAppPrompt(tied[j])) => i < j

\* A snapshot with two history prompts and two desktop prompts of one instant,
\* the desktop prompts written with different offsets.
C13_Witness ==
    /\ Returned
    /\ Len(last.prompts) = 4
    /\ \A i \in 1..4 : Instant(last.prompts[i].timestamp) = 33
    /\ last.prompts[1].text = "first"
    /\ last.prompts[2].text = "second"
    /\ IsMergeAppPrompt(last.prompts[3])
    /\ IsMergeAppPrompt(last.prompts[4])
    /\ last.prompts[3].timestamp # last.prompts[4].timestamp

\* The index of the first prompt of a snapshot that carries a label.
FirstPromptOf(label) ==
    CHOOSE i \in 1..Len(last.prompts) :
        /\ last.prompts[i].project = label
        /\ \A j \in 1..(i - 1) : last.prompts[j].project # label

\* C14: projectsWorkedOn has no label twice, its labels are those of the prompts
\* of the snapshot, whatever labels the summaries carry, and they are in the
\* order of their first prompt in the sorted prompt list.
C14_ProjectsAreDistinctPromptLabels ==
    Returned =>
        LET labels == last.projectsWorkedOn
        IN  /\ \A i, j \in 1..Len(labels) : labels[i] = labels[j] => i = j
            /\ {labels[i] : i \in 1..Len(labels)}
                  = {last.prompts[i].project : i \in 1..Len(last.prompts)}
            /\ \A i, j \in 1..Len(labels) :
                  i < j => FirstPromptOf(labels[i]) < FirstPromptOf(labels[j])

\* A snapshot whose first label is that of a desktop prompt the sort moved in
\* front of a history prompt, with a summary whose label no prompt carries.
C14_Witness ==
    /\ Returned
    /\ Len(last.projectsWorkedOn) = 2
    /\ last.projectsWorkedOn[1] = AppLabel("Chat")
    /\ collectCodePrompts(last.date).val # <<>>
    /\ \E j \in 1..Len(last.sessions) :
          \A i \in 1..Len(last.prompts) :
              last.prompts[i].project # last.sessions[j].project

\* The texts of the "text" blocks that carry a text, in block order, with one
\* space between two of them; the text a user record's content stands for.
RECURSIVE TextsSpaced(_)
TextsSpaced(blocks) ==
    IF blocks = <<>> THEN ""
    ELSE LET b == Head(blocks)
             rest == TextsSpaced(Tail(blocks))
         IN  IF b.type # "text" \/ b.text = "" THEN rest
             ELSE IF rest = "" THEN b.text
             ELSE b.text \o " " \o rest
ContentText(content) ==
    IF content.k = "string" THEN content.text ELSE TextsSpaced(content.blocks)

\* The user records of an audit file that fall on a day.
UserEntriesInDay(f, day) ==
    LET IsUserInDay(entry) == EntryInDay(entry, day) /\ entry.type = "user"
    IN  Filter(f.lines, IsUserInDay)

\* C15: the text of the prompt of an in-day user record of an audit file is the
\* record's content when that is a string, and otherwise the texts of its "text"
\* blocks that carry one, in block order with one space between two of them;
\* the prompts of a file are in the order of their records.
C15_PromptTextFromContent ==
    last.ran =>
        \A k \in 1..Len(findDesktopAuditFiles) :
            LET a == findDesktopAuditFiles[k]
                r == parseDesktopSession(a.auditPath, a.metaPath, last.date)
                HasText(entry) == ContentText(entry.content) # ""
                withText == Filter(UserEntriesInDay(a.auditPath, last.date), HasText)
            IN  ~r.raised =>
                    /\ Len(r.val.prompts) = Len(withText)
                    /\ \A i \in 1..Len(withText) :
                          /\ r.val.prompts[i].text = ContentText(withText[i].content)
                          /\ r.val.prompts[i].timestamp = withText[i].audit_timestamp
                          /\ Returned =>
                                \E j \in 1..Len(last.prompts) :
                                    last.prompts[j] = r.val.prompts[i]

\* A snapshot with the prompt of a string and the prompt of a block array that
\* holds two texts, an image and a text block without text.
C15_Witness ==
    /\ Returned
    /\ \E i, j \in 1..Len(last.prompts) :
          /\ last.prompts[i].text = "hello"
          /\ last.prompts[j].text = "a b"

\* The label of the prompts and the summary of a desktop session: the title of
\* its metadata file in brackets, or the default title.
LabelOf(meta) ==
    IF meta.exists /\ meta.parses /\ meta.title # ""
    THEN "[App] " \o meta.title ELSE "[App] Claude App"

\* C16 as claimed: an audit file gives one prompt for each of its in-day user
\* records, as many as the userMessageCount of its summary, each with the label
\* built from the title.
C16_OnePromptPerUserRecord ==
    last.ran =>
        \A k \in 1..Len(findDesktopAuditFiles) :
            LET a == findDesktopAuditFiles[k]
                r == parseDesktopSession(a.auditPath, a.metaPath, last.date)
            IN  (~r.raised /\ r.val.session # <<>>) =>
                    /\ Len(r.val.prompts) = Len(UserEntriesInDay(a.auditPath, last.date))
                    /\ Len(r.val.prompts) = r.val.session[1].userMessageCount
                    /\ \A i \in 1..Len(r.val.prompts) :
                          r.val.prompts[i].project = LabelOf(a.metaPath)

\* C16 as amended: an audit file gives one prompt for each of its in-day user
\* records with a text, which are no more than the userMessageCount of its
\* summary, the number of its in-day user records; each prompt and the summary
\* have the label built from the title.
C16_OnePromptPerUserRecordWithText ==
    last.ran =>
        \A k \in 1..Len(findDesktopAuditFiles) :
            LET a == findDesktopAuditFiles[k]
                r == parseDesktopSession(a.auditPath, a.metaPath, last.date)
                users == UserEntriesInDay(a.auditPath, last.date)
                HasText(entry) == ContentText(entry.content) # ""
            IN  (~r.raised /\ r.val.session # <<>>) =>
                    /\ r.val.session[1].userMessageCount = Len(users)
                    /\ Len(r.val.prompts) = Count(users, HasText)
                    /\ Len(r.val.prompts) <= r.val.session[1].userMessageCount
                    /\ r.val.session[1].project = LabelOf(a.metaPath)
                    /\ \A i \in 1..Len(r.val.prompts) :
                          /\ r.val.prompts[i].project = LabelOf(a.metaPath)
                          /\ r.val.prompts[i].text # ""

\* A snapshot with a summary that counts two user messages, one of them a tool
\* result, and with one prompt of that session.
C16_Witness ==
    /\ Returned
    /\ Len(last.prompts) = 1
    /\ \E j \in 1..Len(last.sessions) :
          /\ last.sessions[j].userMessageCount = 2
          /\ last.sessions[j].project = last.prompts[1].project
    /\ \E k \in 1..Len(AllAudits) : \E i \in 1..Len(AllAudits[k].lines) :
          /\ AllAudits[k].lines[i].content.k = "blocks"
          /\ ContentText(AllAudits[k].lines[i].content) = ""

\* The session directories that qualify, in the order of the listing: those
\* with the prefix that are directories and hold an audit file, in a user
\* directory that can be listed, in a workspace that can be listed.
QualifyingSessions ==
    LET OfEntry(entry) ==
            IF entry.prefixed /\ entry.stat = "dir" /\ entry.audit.exists
            THEN <<[auditPath |-> entry.audit, metaPath |-> entry.meta]>> ELSE <<>>
        OfUser(user) ==
            IF user.stat = "dir" /\ user.listable
            THEN Concat(Map(user.entries, OfEntry)) ELSE <<>>
        OfWorkspace(workspace) ==
            IF workspace.stat = "dir" /\ workspace.listable
            THEN Concat(Map(workspace.users, OfUser)) ELSE <<>>
    IN  IF desktop.exists /\ desktop.listable
        THEN Concat(Map(desktop.workspaces, OfWorkspace)) ELSE <<>>

\* No statSync and no readdirSync of the traversal throws.
NothingThrows ==
    \A w \in 1..Len(desktop.workspaces) :
        LET workspace == desktop.workspaces[w]
        IN  /\ workspace.stat # "err"
            /\ workspace.stat = "dir" => workspace.listable
            /\ \A u \in 1..Len(workspace.users) :
                  LET user == workspace.users[u]
                  IN  /\ user.stat # "err"
                      /\ user.stat = "dir" => user.listable
                      /\ \A e \in 1..Len(user.entries) :
                            user.entries[e].prefixed => user.entries[e].stat # "err"

\* C17: an entry of the tree that is no directory, or on which statSync or
\* readdirSync throws, takes away its own branch only: the traversal returns
\* every qualifying session directory of the other branches, those listed
\* after the entry too, and the snapshot has the summary of each of them that
\* holds a user or assistant record of the day.
C17_FaultSkipsOnlyItsBranch ==
    last.ran =>
        LET Talks(a) == AuditTalks(a.auditPath, last.date)
        IN  /\ findDesktopAuditFiles = QualifyingSessions
            /\ Returned =>
                  Count(last.sessions, IsAppSession) = Count(QualifyingSessions, Talks)

\* C17 where nothing throws: entries that are no directories, have no prefix or
\* hold no audit file are passed over and every qualifying session is returned.
C17_NonDirectoriesAreSkipped ==
    (last.ran /\ NothingThrows) => findDesktopAuditFiles = QualifyingSessions

\* The session id of the first in-day record of an audit file that has one.
FirstRecordId(f, day) ==
    LET HasId(entry) == EntryInDay(entry, day) /\ TruthyStr(entry.session_id)
        withId == Filter(f.lines, HasId)
    IN  IF withId = <<>> THEN "" ELSE withId[1].session_id

\* C18: a session whose metadata file is missing or does not parse is processed
\* like one with metadata: it throws only where that does, and gives the same
\* prompts and the same summary but for the label, which is built from the
\* default title, and the session id, for which the metadata gives nothing, so
\* that it is the first session id of the in-day records, or empty.
C18_MetadataOptional ==
    last.ran =>
        \A k \in 1..Len(findDesktopAuditFiles) :
            LET a == findDesktopAuditFiles[k]
                r == parseDesktopSession(a.auditPath, a.metaPath, last.date)
                v == parseDesktopSession(a.auditPath, DesktopSessionMeta("Chat", "m1"),
                                         last.date)
                ids == {a.auditPath.lines[i].session_id : i \in 1..Len(a.auditPath.lines)}
            IN  (~a.metaPath.exists \/ ~a.metaPath.parses) =>
                    /\ MetaTitle(a.metaPath) = "Claude App"
                    /\ MetaSessionId(a.metaPath) = ""
                    /\ r.raised <=> v.raised
                    /\ ~r.raised =>
                          /\ Len(r.val.prompts) = Len(v.val.prompts)
                          /\ \A i \in 1..Len(r.val.prompts) :
                                /\ r.val.prompts[i].text = v.val.prompts[i].text
                                /\ r.val.prompts[i].timestamp = v.val.prompts[i].timestamp
                                /\ r.val.prompts[i].project = "[App] Claude App"
                                /\ r.val.prompts[i].sessionId \in ids
                                /\ Returned =>
                                      \E j \in 1..Len(last.prompts) :
                                          last.prompts[j] = r.val.prompts[i]
                          /\ Len(r.val.session) = Len(v.val.session)
                          /\ r.val.session # <<>> =>
                                r.val.session[1] =
                                    [v.val.session[1] EXCEPT
                                        !.project = "[App] Claude App",
                                        !.sessionId = FirstRecordId(a.auditPath, last.date)]

\* A snapshot with a prompt and a summary of a session without a metadata file
\* and of a session whose metadata file does not parse.
C18_Witness ==
    /\ Returned
    /\ Len(last.prompts) = 2
    /\ Len(last.sessions) = 2
    /\ \A j \in 1..2 : last.sessions[j].project = "[App] Claude App"
    /\ \E k, l \in 1..Len(findDesktopAuditFiles) :
          /\ findDesktopAuditFiles[k].metaPath = MissingMeta
          /\ findDesktopAuditFiles[l].metaPath = BrokenMeta
          /\ UserEntriesInDay(findDesktopAuditFiles[k].auditPath, last.date) # <<>>
          /\ UserEntriesInDay(findDesktopAuditFiles[l].auditPath, last.date) # <<>>

\* The entries of the history log that fall on a day, in log order.
HistoryOfDay(day) ==
    LET OnDay(entry) == HistoryInDay(entry, day)
    IN  Filter(history.lines, OnDay)

\* C19: in a run that returns, the history prompts are one for each in-day entry
\* of the history log, in log order, with the entry's display text, session id
\* and instant and with the last segment of the entry's project path as label
\* (proj-x for /home/u/proj-x); the snapshot holds each of them as often as the
\* log gives it.
C19_OnePromptPerHistoryEntry ==
    Returned =>
        LET entries == HistoryOfDay(last.date)
            code == collectCodePrompts(last.date).val
        IN  /\ Len(code) = Len(entries)
            /\ \A i \in 1..Len(entries) :
                  LET Same(p) == p = code[i]
                      segs == entries[i].project.segs
                  IN  /\ code[i].text = entries[i].display
                      /\ code[i].sessionId = entries[i].sessionId
                      /\ code[i].project = segs[Len(segs)]
                      /\ segs = <<"home", "u", "proj-x">> => code[i].project = "proj-x"
                      /\ Instant(code[i].timestamp) = Instant(entries[i].timestamp)
                      /\ Count(last.prompts, Same) = Count(code, Same)
            /\ Len(last.prompts) = Len(code) + Count(last.prompts, IsAppPrompt)

\* A snapshot of a log with an entry of another day between two entries of the
\* day, the later of which is the earlier in the log.
C19_Witness ==
    /\ Returned
    /\ Len(history.lines) = 3
    /\ HistoryInDay(history.lines[1], last.date)
    /\ history.lines[2].kind = "rec"
    /\ ~HistoryInDay(history.lines[2], last.date)
    /\ HistoryInDay(history.lines[3], last.date)
    /\ Instant(history.lines[3].timestamp) < Instant(history.lines[1].timestamp)
    /\ Len(last.prompts) = 2
    /\ last.prompts[1].project = "proj-y"
    /\ last.prompts[2].project = "proj-x"

\* C20: after a default run that collected a prompt and whose analysis
\* succeeded, the state file holds the daily stat the run recorded for today.
C20_DailyStatSurvivesRun ==
    run.outcome = "done" =>
        \E i \in 1..Len(stateFile.json.dailyStats) :
            stateFile.json.dailyStats[i] = run.stat

(***************************************************************************)
(* Properties of the transcript fold.                                      *)
(***************************************************************************)
\* The records the fold is to pass over: snapshots, records without a
\* timestamp, records of another day.
IsSkipped(msg, day) ==
    \/ msg.type = "file-history-snapshot"
    \/ msg.timestamp.k = "none"
    \/ ~MessageInDay(msg, day)
WithoutSkipped(f, day) ==
    LET Kept(msg) == ~IsSkipped(msg, day)
    IN  TextFile(Filter(f.lines, Kept))

\* C21: a snapshot record, a record without a timestamp and a record of another
\* day leave every field of the summary as it was: each transcript gives the
\* summary of the transcript without those records, and the sessions of a
\* snapshot are those of the matched transcripts without them.
C21_SkippedRecordsLeaveNoTrace ==
    /\ \A i \in 1..Len(AllTranscripts) :
          parseCodeSessionFile(AllTranscripts[i], 1)
              = parseCodeSessionFile(WithoutSkipped(AllTranscripts[i], 1), 1)
    /\ Returned =>
          LET ParseClean(f) == parseCodeSessionFile(WithoutSkipped(f, last.date),
                                                    last.date).val
          IN  last.sessions = Concat(Map(MatchedTranscripts(last.date), ParseClean))

\* A snapshot of a transcript that holds a snapshot record, then a user record
\* of the day, then a record of the day before written with an offset: the
\* summary is that of the user record alone.
C21_Witness ==
    /\ Returned
    /\ Len(last.sessions) = 1
    /\ \E i \in 1..Len(MatchedTranscripts(1)) :
          LET f == MatchedTranscripts(1)[i]
          IN  /\ Len(f.lines) = 3
              /\ f.lines[1].type = "file-history-snapshot"
              /\ f.lines[2].type = "user" /\ MessageInDay(f.lines[2], 1)
              /\ f.lines[3].timestamp = Iso(25, 5)
    /\ last.sessions[1].sessionId = "a"
    /\ last.sessions[1].gitBranch = "main"
    /\ last.sessions[1].messageCount = 1
    /\ last.sessions[1].inputTokens = 0
    /\ last.sessions[1].startTime = last.sessions[1].endTime

\* The user and assistant records of the day in a transcript, and sums over them.
IsUserOfDay(msg, day) ==
    msg.type = "user" /\ msg.timestamp.k # "none" /\ MessageInDay(msg, day)
IsAssistantOfDay(msg, day) ==
    msg.type = "assistant" /\ msg.timestamp.k # "none" /\ MessageInDay(msg, day)
NamedToolBlocks(msg) ==
    LET IsNamedTool(b) == b.type = "tool_use" /\ b.name # ""
    IN  IF msg.content.k = "blocks" THEN Count(msg.content.blocks, IsNamedTool) ELSE 0
InputOf(msg) == IF msg.usage.present THEN msg.usage.input_tokens ELSE 0
OutputOf(msg) == IF msg.usage.present THEN msg.usage.output_tokens ELSE 0

\* C22: the user and assistant counts of a summary are the numbers of user and
\* assistant records of the day, the message count is their sum, the token
\* counts are the sums of the usage of the assistant records of the day, an
\* absent usage counting zero, and the tool count is the number of named tool
\* blocks of those assistant records; usage and tool blocks of user records
\* add nothing.
C22_CountsAndTokensOfTheDay ==
    \A i \in 1..Len(AllTranscripts) :
        LET f == AllTranscripts[i]
            out == parseCodeSessionFile(f, 1)
            IsUser(msg) == IsUserOfDay(msg, 1)
            IsAssistant(msg) == IsAssistantOfDay(msg, 1)
            assistants == Filter(f.lines, IsAssistant)
        IN  /\ ~out.raised
            /\ out.val = <<>> <=>
                  (Count(f.lines, IsUser) = 0 /\ Count(f.lines, IsAssistant) = 0)
            /\ out.val # <<>> =>
                  /\ out.val[1].userMessageCount = Count(f.lines, IsUser)
                  /\ out.val[1].assistantMessageCount = Len(assistants)
                  /\ out.val[1].messageCount
                        = Count(f.lines, IsUser) + Len(assistants)
                  /\ out.val[1].inputTokens = SumOf(assistants, InputOf)
                  /\ out.val[1].outputTokens = SumOf(assistants, OutputOf)
                  /\ out.val[1].toolCallCount = SumOf(assistants, NamedToolBlocks)

\* A snapshot of a transcript with a user record that carries usage and a tool
\* block, an assistant record with usage and three tool blocks of which two are
\* named, and an assistant record without usage.
C22_Witness ==
    /\ Returned
    /\ Len(last.sessions) = 1
    /\ last.sessions[1].userMessageCount = 1
    /\ last.sessions[1].assistantMessageCount = 2
    /\ last.sessions[1].messageCount = 3
    /\ last.sessions[1].inputTokens = 50
    /\ last.sessions[1].outputTokens = 20
    /\ last.sessions[1].toolCallCount = 2
    /\ last.sessions[1].toolNames = <<"Read">>

\* The records of a transcript the fold reads: of the day, dated, no snapshots.
ReadRecords(f, day) == WithoutSkipped(f, day).lines

\* The index of the last record of a sequence that has a field, 0 when none has.
RECURSIVE LastIndex(_, _, _)
LastIndex(seq, Has(_), n) ==
    IF n = 0 THEN 0 ELSE IF Has(seq[n]) THEN n ELSE LastIndex(seq, Has, n - 1)

HasSessionId(msg) == msg.sessionId \notin {"", UNDEF}
HasBranch(msg) == msg.gitBranch \notin {"", UNDEF}
HasCwd(msg) == msg.cwd.present

\* C23: the session id, the branch and the project of a summary are those of
\* the last record of the day, snapshots apart, that carries the field, the
\* project being the last segment of that record's cwd; a later record without
\* the field does not clear it, and the name of the file plays no part.
C23_LastCarrierWins ==
    \A i \in 1..Len(AllTranscripts) :
        LET out == parseCodeSessionFile(AllTranscripts[i], 1)
            recs == ReadRecords(AllTranscripts[i], 1)
            s == LastIndex(recs, HasSessionId, Len(recs))
            b == LastIndex(recs, HasBranch, Len(recs))
            c == LastIndex(recs, HasCwd, Len(recs))
        IN  (~out.raised /\ out.val # <<>>) =>
                /\ out.val[1].sessionId = (IF s = 0 THEN "" ELSE recs[s].sessionId)
                /\ out.val[1].gitBranch = (IF b = 0 THEN UNDEF ELSE recs[b].gitBranch)
                /\ out.val[1].project
                      = (IF c = 0 THEN ""
                         ELSE recs[c].cwd.segs[Len(recs[c].cwd.segs)])

\* A snapshot of the transcript a.jsonl whose records of the day name the
\* sessions a and then a2, followed by a record with no session id, cwd or
\* branch: the summary carries a2, dev and proj-y.
C23_Witness ==
    /\ Returned
    /\ Len(last.sessions) = 1
    /\ \E i \in 1..Len(MatchedTranscripts(1)) :
          LET f == MatchedTranscripts(1)[i]
          IN  /\ Len(f.lines) = 3
              /\ f.lines[1].sessionId = "a" /\ MessageInDay(f.lines[1], 1)
              /\ f.lines[2].sessionId = "a2" /\ MessageInDay(f.lines[2], 1)
              /\ f.lines[3].sessionId = "" /\ MessageInDay(f.lines[3], 1)
              /\ ~f.lines[3].cwd.present
    /\ last.sessions[1].sessionId = "a2"
    /\ last.sessions[1].gitBranch = "dev"
    /\ last.sessions[1].project = "proj-y"

\* The summaries of the primary source in a snapshot, and the directory
\* entries that are transcripts named after a session id.
CodeSessions == Filter(last.sessions, IsCodeSession)
AllEntries ==
    LET OfDir(dir) == IF dir.listable THEN dir.entries ELSE <<>>
    IN  Concat(Map(projects.dirs, OfDir))
NamedAfter(entry, ids) == entry.ext = JsonlExt /\ entry.stem \in ids

\* C24 as stated: the primary source gives at most one summary for each session
\* id of the day's history prompts.
C24_OneSummaryPerSessionId ==
    Returned => Len(CodeSessions) <= Cardinality(ReferencedIds(last.date))

\* C24: the summaries of the primary source are those of the transcripts whose
\* name without .jsonl is a session id of the day's history prompts, one for
\* each such file that holds a user or assistant record of the day, files of
\* one name in two project directories each giving theirs; a transcript named
\* after no session id of the day's history gives none.
C24_OneSummaryPerMatchingFile ==
    Returned =>
        LET ids == ReferencedIds(last.date)
            Matches(entry) == NamedAfter(entry, ids)
            Talks(entry) == TranscriptTalks(entry.file, last.date)
            Summary(entry) == parseCodeSessionFile(entry.file, last.date).val
            matched == Filter(AllEntries, Matches)
        IN  /\ CodeSessions = Concat(Map(matched, Summary))
            /\ Len(CodeSessions) = Count(matched, Talks)
            /\ Len(CodeSessions) <= Len(matched)
            /\ (\A i \in 1..Len(AllEntries) : ~Matches(AllEntries[i]))
                  => CodeSessions = <<>>

\* A snapshot with a summary for each of the two transcripts a.jsonl and none
\* for c.jsonl, which holds a user record of the day and whose session id
\* occurs in the history on another day only.
C24_Witness ==
    /\ Returned
    /\ Len(CodeSessions) = 2
    /\ ReferencedIds(1) = {"a"}
    /\ \E i \in 1..Len(AllEntries) :
          /\ AllEntries[i].stem = "c"
          /\ TranscriptTalks(AllEntries[i].file, 1)
    /\ \E i \in 1..Len(history.lines) : history.lines[i].sessionId = "c"

(***************************************************************************)
(* Properties of the coach's own state.                                    *)
(***************************************************************************)
\* A step that is a default run to its end: it records one more insight.
RunDone ==
    /\ stateFile'.exists
    /\ stateFile'.json.totalInsights = loadState.totalInsights + 1

\* C25: a default run to its end on the day of the last run leaves the streak
\* as it is, a run on the day after the last run adds one to it, any other run
\* sets it to 1, and the last run date is the day of the run afterwards.
C25_StreakFollowsTheCalendar ==
    [][RunDone =>
          /\ stateFile'.json.lastRunDate = now
          /\ stateFile'.json.streak
                = (IF loadState.lastRunDate = now THEN loadState.streak
                   ELSE IF loadState.lastRunDate # NoDate
                           /\ loadState.lastRunDate = now - 1
                   THEN loadState.streak + 1
                   ELSE 1)]_vars

\* The dimensions of the insights stored, in the order they were recorded.
RecordedDimensions ==
    LET DimensionOf(insight) == insight.dimension
    IN  Map(insightsFile, DimensionOf)

\* C26: whatever the base scores and the boosts, pickDimension returns no
\* dimension of recentDimensions while a dimension outside it exists; in runs
\* that record the dimension picked, recentDimensions is the last four recorded
\* and any five dimensions recorded in a row are pairwise distinct.
C26_LensRotates ==
    /\ \A data \in LensData : \A base \in LensBases :
          LET recent == loadState.recentDimensions
              picked == pickDimension(recent, data, base)
          IN  /\ picked \in DimensionSet
              /\ (\E d \in DimensionSet : ~Includes(recent, d))
                    => ~Includes(recent, picked)
    /\ LET n == Len(RecordedDimensions)
       IN  /\ loadState.recentDimensions
                 = SubSeq(RecordedDimensions, IF n > 4 THEN n - 3 ELSE 1, n)
           /\ \A i, j \in 1..n :
                 (i < j /\ j - i <= 4) => RecordedDimensions[i] # RecordedDimensions[j]

\* Six dimensions recorded on days that boost Prompting Craft: it comes first,
\* stays out for four runs although it is boosted in each, and is back as the
\* sixth.
C26_Witness ==
    /\ Len(RecordedDimensions) = 6
    /\ RecordedDimensions[1] = "Prompting Craft"
    /\ RecordedDimensions[6] = "Prompting Craft"
    /\ run.outcome = "done"
    /\ run.stat.prompts = 9
    /\ Len(loadState.recentDimensions) = 4

\* The dates of a sequence of daily stats, and the suffix of a sequence.
DatesOf(stats) == {stats[i].date : i \in 1..Len(stats)}
LastOf(seq, n) == IF Len(seq) > n THEN SubSeq(seq, Len(seq) - n + 1, Len(seq)) ELSE seq

\* The effect of one call of recordDailyStat on the daily stats of the file.
RecordsInPlaceOrAppends ==
    run'.cmd = "recordDailyStat" =>
        LET stat == run'.stat
            before == loadState.dailyStats
            after == stateFile'.json.dailyStats
        IN  IF stat.date \in DatesOf(before)
            THEN /\ Len(after) = Len(before)
                 /\ \A i \in 1..Len(before) :
                       after[i] = (IF before[i].date = stat.date THEN stat ELSE before[i])
            ELSE after = LastOf(Append(before, stat), StatsKept)

\* C27: the daily stats of the state file hold at most one entry for a date and
\* at most 30 entries; a call of recordDailyStat for a date they hold puts the
\* new stat in the place of the old one, a call for a new date appends, and of
\* 31 entries the first is the one dropped.
C27_DailyStatsOnePerDateLastThirty ==
    /\ [](LET stats == loadState.dailyStats
          IN  /\ Len(stats) <= StatsKept
              /\ Cardinality(DatesOf(stats)) = Len(stats))
    /\ [][RecordsInPlaceOrAppends]_vars

\* Thirty daily stats after calls on the stats of 29 days: the first day is
\* gone, the new dates are at the end, and the stat of day 29 was replaced
\* where it stood.
C27_Witness ==
    /\ run.cmd = "recordDailyStat"
    /\ Len(stateFile.json.dailyStats) = StatsKept
    /\ stateFile.json.dailyStats[1].date = 2
    /\ stateFile.json.dailyStats[StatsKept - 2].date = StatsKept - 1
    /\ stateFile.json.dailyStats[StatsKept - 2].tokens = 7
    /\ stateFile.json.dailyStats[StatsKept].date = StatsKept + 1

\* The effect of one completeGoal on the goals of the state file.
CompletesAtMostOne ==
    (run'.cmd = "completeGoal" /\ now' = now) =>
        LET before == loadState.goals
            after == IF stateFile'.exists /\ "goals" \notin stateFile'.lacks
                     THEN stateFile'.json.goals ELSE <<>>
            Named(goal) == goal.id = run'.id
            changed == {i \in 1..Len(before) : after[i] # before[i]}
        IN  /\ Len(after) = Len(before)
            /\ Cardinality(changed) <= 1
            /\ IF Count(before, Named) = 0
                  \/ \E i \in 1..Len(before) :
                        Named(before[i]) /\ before[i].completedDate # NoDate
               THEN /\ ~run'.result
                    /\ stateFile' = stateFile
               ELSE /\ run'.result
                    /\ \E i \in 1..Len(before) :
                          /\ changed = {i}
                          /\ Named(before[i])
                          /\ after[i] = [before[i] EXCEPT !.completedDate = now]

\* C28: the ids of the goals stored are pairwise distinct after any sequence of
\* the three goal commands; completeGoal marks the one goal of the id, and for
\* an id that is unknown or already completed it returns false and writes
\* nothing.
C28_GoalIdsDistinct ==
    /\ [](LET goals == loadState.goals
          IN  \A i, j \in 1..Len(goals) : goals[i].id = goals[j].id => i = j)
    /\ [][CompletesAtMostOne]_vars

\* Goal 2 was left after goals 1 and 3 were completed and cleared, a goal was
\* added with the id 3 again, and completing goal 2 a second time returned false.
C28_Witness ==
    /\ run.cmd = "completeGoal"
    /\ run.id = 2
    /\ ~run.result
    /\ Len(loadState.goals) = 2
    /\ loadState.goals[1].id = 2
    /\ loadState.goals[1].completedDate # NoDate
    /\ loadState.goals[2].id = 3
    /\ loadState.goals[2].createdDate > loadState.goals[1].completedDate

\* C29: the helpful and not-helpful counts of the state file together never
\* exceed its count of insights, so the helpful rate of `coach streak` is at
\* most 100%.
C29_RatingsWithinInsights ==
    /\ loadState.helpfulCount + loadState.notHelpfulCount <= loadState.totalInsights
    /\ loadState.helpfulCount <= loadState.totalInsights

(***************************************************************************)
(* Properties of runClaude.                                                *)
(***************************************************************************)
\* What the child has done tells how the promise is to settle: resolved with
\* the trimmed stdout after a close with exit code 0 that no failure preceded.
ClosedClean == proc.closed /\ proc.code = "0" /\ ~proc.failedEarly

\* C30: once settled the promise stays as it is, and it is settled when the
\* close event has been handled; it is resolved, with the trimmed stdout, only
\* after a close with exit code 0 that no process error and no stdin error but
\* EPIPE preceded, and rejected after any other close; for a missing executable
\* it is rejected with the not-found message; a stdin error EPIPE with no other
\* failure and no close leaves it pending.
C30_SettlesOnceByCloseOrFailure ==
    /\ [](proc.spawned =>
            /\ proc.closed => proc.promise.state # "pending"
            /\ proc.promise.state = "resolved" =>
                  (ClosedClean /\ proc.promise.value = trim(proc.stdout))
            /\ (proc.closed /\ ~ClosedClean) => proc.promise.state = "rejected"
            /\ (proc.missing /\ proc.promise.state # "pending") =>
                  proc.promise = [state |-> "rejected", err |-> NotFoundError]
            /\ (proc.promise.state = "rejected" /\ ~proc.closed) => proc.failedEarly
            /\ proc.rejected => proc.promise.state # "pending")
    /\ [][(proc.spawned /\ proc.promise.state # "pending")
             => proc'.promise = proc.promise]_vars

\* The child wrote " ok" and a line feed, the write to its stdin failed with
\* EPIPE, and it closed with exit code 0: the promise is resolved with "ok".
C30_Witness ==
    /\ proc.spawned
    /\ proc.closed
    /\ proc.epipe
    /\ proc.stdout = <<" ", "o", "k", "\n">>
    /\ proc.promise = [state |-> "resolved", value |-> <<"o", "k">>]

====
